---- MODULE Spec2Model ----
(***************************************************************************)
(* Query understanding and product resolution of the hardware-store        *)
(* assistant (AsistenteView, ProductRepository, GroqService).              *)
(*                                                                         *)
(* Text is a sequence of characters; a character is a one-element string.  *)
(* Characters outside ASCII are named by an ASCII mnemonic: "a'" is a with *)
(* acute accent, "n~" is n with tilde, "~?" and "~!" are the inverted      *)
(* question and exclamation marks, "<emoji>" is a pictograph and "<bull>"  *)
(* the bullet sign, "<bq>" the backquote.                                  *)
(***************************************************************************)
EXTENDS Integers, Sequences, FiniteSets, TLC

\* ------------------------------------------------------------------ text

Min(a, b) == IF a <= b THEN a ELSE b
Max(a, b) == IF a >= b THEN a ELSE b

\* Python's None
None == "None"

\* x in s, for strings: s contains sub as a contiguous run
Contains(s, sub) ==
  \E i \in 0..(Len(s) - Len(sub)) : SubSeq(s, i + 1, i + Len(sub)) = sub

\* s.endswith(c)
EndsWith(s, c) == Len(s) > 0 /\ s[Len(s)] = c

UpperAscii ==
  <<"A","B","C","D","E","F","G","H","I","J","K","L","M",
    "N","O","P","Q","R","S","T","U","V","W","X","Y","Z">>
LowerAscii ==
  <<"a","b","c","d","e","f","g","h","i","j","k","l","m",
    "n","o","p","q","r","s","t","u","v","w","x","y","z">>
UpperAccent == <<"A'","E'","I'","O'","U'","N~","U:">>
LowerAccent == <<"a'","e'","i'","o'","u'","n~","u:">>
Digits == {"0","1","2","3","4","5","6","7","8","9"}

\* what str.split() and str.strip() treat as whitespace
Whitespace == {" ", "\n", "\t"}

Index(seq, c) == CHOOSE i \in 1..Len(seq) : seq[i] = c
InSeq(seq, c) == \E i \in 1..Len(seq) : seq[i] = c

\* str.lower() on one character (Unicode aware)
LowerChar(c) ==
  IF InSeq(UpperAscii, c) THEN LowerAscii[Index(UpperAscii, c)]
  ELSE IF InSeq(UpperAccent, c) THEN LowerAccent[Index(UpperAccent, c)]
  ELSE c

Lower(s) == [i \in 1..Len(s) |-> LowerChar(s[i])]

\* SQLite's lower()/LIKE fold the case of the ASCII letters only
LowerAsciiChar(c) ==
  IF InSeq(UpperAscii, c) THEN LowerAscii[Index(UpperAscii, c)] ELSE c

LowerSql(s) == [i \in 1..Len(s) |-> LowerAsciiChar(s[i])]

\* unidecode() on one character: the ASCII transliteration
UnidecodeChar(c) ==
  IF InSeq(LowerAccent, c)
    THEN <<(<<"a","e","i","o","u","n","u">>)[Index(LowerAccent, c)]>>
  ELSE IF InSeq(UpperAccent, c)
    THEN <<(<<"A","E","I","O","U","N","U">>)[Index(UpperAccent, c)]>>
  ELSE IF c = "~?" THEN <<"?">>
  ELSE IF c = "~!" THEN <<"!">>
  ELSE IF c = "<bull>" THEN <<"*">>
  ELSE IF c = "<emoji>" THEN <<>>
  ELSE <<c>>

RECURSIVE Unidecode(_)
Unidecode(s) ==
  IF s = <<>> THEN <<>> ELSE UnidecodeChar(Head(s)) \o Unidecode(Tail(s))

\* str.strip()
RECURSIVE LStrip(_)
LStrip(s) ==
  IF s # <<>> /\ Head(s) \in Whitespace THEN LStrip(Tail(s)) ELSE s

RECURSIVE RStrip(_)
RStrip(s) ==
  IF s # <<>> /\ s[Len(s)] \in Whitespace
    THEN RStrip(SubSeq(s, 1, Len(s) - 1)) ELSE s

Strip(s) == RStrip(LStrip(s))

\* str.split(): the maximal runs of non-whitespace characters, in order
WordStarts(s) ==
  {i \in 1..Len(s) : s[i] \notin Whitespace /\ (i = 1 \/ s[i - 1] \in Whitespace)}

WordEnd(s, i) ==
  CHOOSE j \in i..Len(s) :
    /\ \A k \in i..j : s[k] \notin Whitespace
    /\ (j = Len(s) \/ s[j + 1] \in Whitespace)

RECURSIVE SplitFrom(_, _)
SplitFrom(s, i) ==
  IF \A j \in i..Len(s) : j \notin WordStarts(s) THEN <<>>
  ELSE LET b == CHOOSE j \in i..Len(s) :
                  j \in WordStarts(s) /\ \A k \in i..(j - 1) : k \notin WordStarts(s)
           e == WordEnd(s, b)
       IN  <<SubSeq(s, b, e)>> \o SplitFrom(s, e + 1)

Split(s) == SplitFrom(s, 1)

\* ' '.join(words)
RECURSIVE Join(_)
Join(ws) ==
  IF ws = <<>> THEN <<>>
  ELSE IF Len(ws) = 1 THEN ws[1]
  ELSE ws[1] \o <<" ">> \o Join(Tail(ws))

Range(f) == {f[i] : i \in DOMAIN f}

\* string.punctuation
string_punctuation ==
  {"!", "\"", "#", "$", "%", "&", "'", "(", ")", "*", "+", ",", "-", ".", "/", ":", ";", "<", "=", ">", "?", "@", "[", "\\", "]", "^", "_", "<bq>", "{", "|", "}", "~"}

\* ------------------------------------------------------------- catalog

\* The product rows the catalog can hold (id order is insertion order).
\* descripcion and marca are nullable columns.
Productos ==
  <<[id |-> 1, nombre |-> <<"P","a","l","a","s">>, codigo |-> <<"P","1">>,
     descripcion |-> None, marca |-> None, stock |-> 5, stock_minimo |-> 2],
    [id |-> 2, nombre |-> <<"L","a","t","e","x">>, codigo |-> <<"L","2">>,
     descripcion |-> None, marca |-> <<"M","a","t","t","e">>,
     stock |-> 0, stock_minimo |-> 1],
    [id |-> 3, nombre |-> <<"P","a","l","a"," ","x"," ","2">>, codigo |-> <<"P","3">>,
     descripcion |-> None, marca |-> None, stock |-> 3, stock_minimo |-> 3],
    [id |-> 4, nombre |-> <<"P","a","l","a"," ","4">>, codigo |-> <<"R","4">>,
     descripcion |-> None, marca |-> None, stock |-> 9, stock_minimo |-> 1],
    [id |-> 5, nombre |-> <<"P","a","l","a"," ","5">>, codigo |-> <<"R","5">>,
     descripcion |-> None, marca |-> None, stock |-> 9, stock_minimo |-> 1],
    [id |-> 6, nombre |-> <<"P","a","l","a"," ","6">>, codigo |-> <<"R","6">>,
     descripcion |-> None, marca |-> None, stock |-> 9, stock_minimo |-> 1],
    [id |-> 7, nombre |-> <<"P","a","l","a"," ","1","2">>, codigo |-> <<"R","7">>,
     descripcion |-> None, marca |-> None, stock |-> 9, stock_minimo |-> 1],
    [id |-> 8, nombre |-> <<"P","a","l","a"," ","7">>, codigo |-> <<"R","8">>,
     descripcion |-> None, marca |-> None, stock |-> 9, stock_minimo |-> 1],
    [id |-> 9, nombre |-> <<"P","a","l"," ","2">>, codigo |-> <<"R","9">>,
     descripcion |-> None, marca |-> None, stock |-> 9, stock_minimo |-> 1],
    [id |-> 10, nombre |-> <<"P","a","l","a"," ","8">>, codigo |-> <<"R","1","0">>,
     descripcion |-> None, marca |-> None, stock |-> 9, stock_minimo |-> 1],
    [id |-> 11, nombre |-> <<"P","a","l","a"," ","3","2">>, codigo |-> <<"R","1","1">>,
     descripcion |-> None, marca |-> None, stock |-> 9, stock_minimo |-> 1],
    [id |-> 12, nombre |-> <<"P","a","l","a"," ","9">>, codigo |-> <<"R","1","2">>,
     descripcion |-> None, marca |-> None, stock |-> 9, stock_minimo |-> 1]>>

ProductIds == DOMAIN Productos

\* the rows whose activo flag changes while the assistant runs; the other
\* rows stay inactive there
FilasVariables == {1, 2, 3}

\* A row of the table has activo = True or False (delete() is a soft delete
\* unless asked otherwise: it clears activo)
RowStates == {"active", "inactive"}

\* column ILIKE '%query%': NULL never matches; an empty query matches any text
Ilike(column, query) ==
  column # None /\ Contains(LowerSql(column), LowerSql(query))

\* the ids of a set, in ascending order
RECURSIVE SortedIds(_)
SortedIds(S) ==
  IF S = {} THEN <<>>
  ELSE LET m == CHOOSE x \in S : \A y \in S : x <= y
       IN  <<m>> \o SortedIds(S \ {m})

\* ProductRepository.get_all
get_all(cat, solo_activos) ==
  SortedIds({p \in ProductIds :
               cat[p] = "active" \/ (~solo_activos /\ cat[p] = "inactive")})

\* search without the activo filter
search_sin_filtro(cat, query, solo_activos) ==
  SortedIds({p \in ProductIds :
    \/ Ilike(Productos[p].nombre, query)
    \/ Ilike(Productos[p].codigo, query)
    \/ Ilike(Productos[p].descripcion, query)
    \/ Ilike(Productos[p].marca, query)})

\* ProductRepository.search
search(cat, query, solo_activos) ==
  SortedIds({p \in ProductIds :
    /\ (solo_activos => cat[p] = "active")
    /\ \/ Ilike(Productos[p].nombre, query)
       \/ Ilike(Productos[p].codigo, query)
       \/ Ilike(Productos[p].descripcion, query)
       \/ Ilike(Productos[p].marca, query)})

\* ProductRepository.get_stock_bajo
get_stock_bajo(cat) ==
  SortedIds({p \in ProductIds :
               Productos[p].stock <= Productos[p].stock_minimo /\ cat[p] = "active"})

\* --------------------------------------------- difflib.SequenceMatcher

\* find_longest_match on a[alo..ahi), b[blo..bhi) (0-based, half-open):
\* the longest common block, the one starting earliest in a, then in b
Blocks(a, b, alo, ahi, blo, bhi) ==
  {t \in (alo..(ahi - 1)) \X (blo..(bhi - 1)) \X (1..Min(ahi - alo, bhi - blo)) :
     /\ t[1] + t[3] <= ahi
     /\ t[2] + t[3] <= bhi
     /\ SubSeq(a, t[1] + 1, t[1] + t[3]) = SubSeq(b, t[2] + 1, t[2] + t[3])}

find_longest_match(a, b, alo, ahi, blo, bhi) ==
  LET bs == Blocks(a, b, alo, ahi, blo, bhi)
  IN  IF bs = {} THEN <<alo, blo, 0>>
      ELSE CHOOSE t \in bs :
             \A u \in bs :
               \/ u[3] < t[3]
               \/ (u[3] = t[3] /\ t[1] < u[1])
               \/ (u[3] = t[3] /\ t[1] = u[1] /\ t[2] <= u[2])

\* get_matching_blocks: the total size of the blocks found recursively to
\* the left and to the right of the longest match
RECURSIVE MatchSize(_, _, _, _, _, _)
MatchSize(a, b, alo, ahi, blo, bhi) ==
  IF alo >= ahi \/ blo >= bhi THEN 0
  ELSE LET m == find_longest_match(a, b, alo, ahi, blo, bhi)
       IN  IF m[3] = 0 THEN 0
           ELSE m[3] + MatchSize(a, b, alo, m[1], blo, m[2])
                     + MatchSize(a, b, m[1] + m[3], ahi, m[2] + m[3], bhi)

\* SequenceMatcher(None, a, b).ratio() as the fraction num/den:
\* 2*matches/(len(a)+len(b)), and 1.0 when both are empty
ratio(a, b) ==
  IF Len(a) + Len(b) = 0 THEN [num |-> 1, den |-> 1]
  ELSE [num |-> 2 * MatchSize(a, b, 0, Len(a), 0, Len(b)),
        den |-> Len(a) + Len(b)]

\* fractions with positive denominators
FracGE(x, y) == x.num * y.den >= y.num * x.den
FracGT(x, y) == x.num * y.den > y.num * x.den
FracMax(x, y) == IF FracGE(x, y) THEN x ELSE y
Zero == [num |-> 0, den |-> 1]

\* a gate that lets every score through
SinUmbral == [num |-> 0, den |-> 100]

\* a gate stricter than the one of the code
UmbralEstricto == [num |-> 95, den |-> 100]

\* the three similarity thresholds
ThresholdDefault == [num |-> 60, den |-> 100]
ThresholdFlow == [num |-> 75, den |-> 100]
ConfidenceGate == [num |-> 80, den |-> 100]

\* ---------------------------------------------------------- search_fuzzy

\* a score that reads the name only
similarity_solo_nombre(query, p) ==
  ratio(Lower(query), Lower(Productos[p].nombre))

\* max(similarity_nombre, similarity_desc, similarity_marca) of one product
max_similarity(query, p) ==
  LET q == Lower(query)
      similarity_nombre == ratio(q, Lower(Productos[p].nombre))
      similarity_desc ==
        IF Productos[p].descripcion # None /\ Productos[p].descripcion # <<>>
          THEN ratio(q, Lower(Productos[p].descripcion)) ELSE Zero
      similarity_marca ==
        IF Productos[p].marca # None /\ Productos[p].marca # <<>>
          THEN ratio(q, Lower(Productos[p].marca)) ELSE Zero
  IN  FracMax(FracMax(similarity_nombre, similarity_desc), similarity_marca)

\* list.sort(key=score, reverse=True): stable, equal scores keep their order
RECURSIVE SortByScore(_, _)
SortByScore(query, ids) ==
  IF ids = <<>> THEN <<>>
  ELSE LET i == CHOOSE i \in 1..Len(ids) :
                  /\ \A j \in 1..Len(ids) :
                       FracGE(max_similarity(query, ids[i]), max_similarity(query, ids[j]))
                  /\ \A j \in 1..(i - 1) :
                       FracGT(max_similarity(query, ids[i]), max_similarity(query, ids[j]))
       IN  <<ids[i]>> \o
           SortByScore(query, SubSeq(ids, 1, i - 1) \o SubSeq(ids, i + 1, Len(ids)))

FuzzyLimit == 10

\* the scan of search_fuzzy (step 2), over the rows get_all() returned
fuzzy_scan(all_products, cat, query, threshold, solo_activos) ==
  LET kept == SelectSeq(all_products,
                LAMBDA p : /\ ~(solo_activos /\ cat[p] # "active")
                           /\ FracGE(max_similarity(query, p), threshold))
      sorted == SortByScore(query, kept)
  IN  SubSeq(sorted, 1, Min(Len(sorted), FuzzyLimit))

\* --------------------------------------------------- normalizar_termino

\* plurales_conocidos: (plural, singular) pairs
plurales_conocidos ==
  <<
    <<<<"m","a","r","t","i","l","l","o","s">>, <<"m","a","r","t","i","l","l","o">>>>,
    <<<<"c","l","a","v","o","s">>, <<"c","l","a","v","o">>>>,
    <<<<"t","o","r","n","i","l","l","o","s">>, <<"t","o","r","n","i","l","l","o">>>>,
    <<<<"t","a","l","a","d","r","o","s">>, <<"t","a","l","a","d","r","o">>>>,
    <<<<"d","e","s","t","o","r","n","i","l","l","a","d","o","r","e","s">>, <<"d","e","s","t","o","r","n","i","l","l","a","d","o","r">>>>,
    <<<<"a","l","i","c","a","t","e","s">>, <<"a","l","i","c","a","t","e">>>>,
    <<<<"l","l","a","v","e","s">>, <<"l","l","a","v","e">>>>,
    <<<<"t","u","e","r","c","a","s">>, <<"t","u","e","r","c","a">>>>,
    <<<<"p","e","r","n","o","s">>, <<"p","e","r","n","o">>>>,
    <<<<"b","r","o","c","a","s">>, <<"b","r","o","c","a">>>>,
    <<<<"s","i","e","r","r","a","s">>, <<"s","i","e","r","r","a">>>>,
    <<<<"c","i","n","c","e","l","e","s">>, <<"c","i","n","c","e","l">>>>,
    <<<<"l","i","m","a","s">>, <<"l","i","m","a">>>>,
    <<<<"e","s","c","u","a","d","r","a","s">>, <<"e","s","c","u","a","d","r","a">>>>,
    <<<<"n","i","v","e","l","e","s">>, <<"n","i","v","e","l">>>>,
    <<<<"m","e","t","r","o","s">>, <<"m","e","t","r","o">>>>,
    <<<<"c","a","b","l","e","s">>, <<"c","a","b","l","e">>>>,
    <<<<"e","n","c","h","u","f","e","s">>, <<"e","n","c","h","u","f","e">>>>,
    <<<<"i","n","t","e","r","r","u","p","t","o","r","e","s">>, <<"i","n","t","e","r","r","u","p","t","o","r">>>>,
    <<<<"f","o","c","o","s">>, <<"f","o","c","o">>>>,
    <<<<"t","u","b","o","s">>, <<"t","u","b","o">>>>,
    <<<<"c","o","d","o","s">>, <<"c","o","d","o">>>>,
    <<<<"g","r","i","f","o","s">>, <<"g","r","i","f","o">>>>,
    <<<<"b","a","l","d","o","s","a","s">>, <<"b","a","l","d","o","s","a">>>>,
    <<<<"a","z","u","l","e","j","o","s">>, <<"a","z","u","l","e","j","o">>>>,
    <<<<"l","a","d","r","i","l","l","o","s">>, <<"l","a","d","r","i","l","l","o">>>>,
    <<<<"b","l","o","q","u","e","s">>, <<"b","l","o","q","u","e">>>>,
    <<<<"p","i","n","t","u","r","a","s">>, <<"p","i","n","t","u","r","a">>>>,
    <<<<"b","r","o","c","h","a","s">>, <<"b","r","o","c","h","a">>>>,
    <<<<"r","o","d","i","l","l","o","s">>, <<"r","o","d","i","l","l","o">>>>,
    <<<<"l","i","j","a","s">>, <<"l","i","j","a">>>>,
    <<<<"a","d","h","e","s","i","v","o","s">>, <<"a","d","h","e","s","i","v","o">>>>,
    <<<<"s","e","l","l","a","d","o","r","e","s">>, <<"s","e","l","l","a","d","o","r">>>>,
    <<<<"s","i","l","i","c","o","n","a","s">>, <<"s","i","l","i","c","o","n","a">>>>
  >>

InPlurales(t) == \E i \in DOMAIN plurales_conocidos : plurales_conocidos[i][1] = t

SingularOf(t) ==
  plurales_conocidos[CHOOSE i \in DOMAIN plurales_conocidos :
                       plurales_conocidos[i][1] = t][2]

\* str.translate(str.maketrans('', '', string.punctuation))
RemovePunctuation(s) == SelectSeq(s, LAMBDA c : c \notin string_punctuation)

\* steps 1-3 of normalizar_termino: punctuation, accents, case, strip
CleanTerm(termino) == Strip(Lower(Unidecode(RemovePunctuation(termino))))

\* whether normalizar_termino asks the catalog for the singular (lines 883-887)
consulta_singular(termino) ==
  LET t == CleanTerm(termino)
  IN  ~InPlurales(t) /\ EndsWith(t, "s") /\ Len(t) > 3

\* normalizar_termino. db_ok = FALSE: the catalog query for the singular
\* raises, which the function catches (the term is kept)
normalizar_termino(termino, cat, db_ok) ==
  LET t == CleanTerm(termino)
  IN  IF InPlurales(t) THEN SingularOf(t)
      ELSE IF consulta_singular(termino)
             /\ db_ok /\ search(cat, SubSeq(t, 1, Len(t) - 1), TRUE) # <<>>
        THEN SubSeq(t, 1, Len(t) - 1)
      ELSE t

\* --------------------------------------------------- detectar_intencion

palabras_producto ==
  {
    <<"t","i","e","n","e","n">>, <<"h","a","y">>, <<"b","u","s","c","a","r">>,
    <<"b","u","s","c","o">>, <<"v","e","n","d","e","n">>,
    <<"e","n","c","u","e","n","t","r","o">>
  }

palabras_info ==
  {
    <<"s","t","o","c","k">>, <<"p","r","e","c","i","o">>,
    <<"c","u","a","n","t","o"," ","c","u","e","s","t","a">>,
    <<"c","u","a'","n","t","o"," ","c","u","e","s","t","a">>,
    <<"d","i","s","p","o","n","i","b","l","e">>, <<"c","u","a","n","t","o","s">>,
    <<"c","u","a'","n","t","o","s">>
  }

palabras_instruccion ==
  {
    <<"c","o","m","o">>, <<"c","o'","m","o">>, <<"i","n","s","t","a","l","a","r">>,
    <<"r","e","p","a","r","a","r">>, <<"p","a","s","o","s">>,
    <<"i","n","s","t","r","u","c","c","i","o","n","e","s">>,
    <<"i","n","s","t","r","u","c","c","i","o","n">>, <<"p","e","g","a","r">>,
    <<"c","o","l","o","c","a","r">>, <<"m","o","n","t","a","r">>
  }

palabras_offtopic ==
  {
    <<"q","u","i","e","n"," ","e","s">>, <<"q","u","i","e'","n"," ","e","s">>,
    <<"e","l","o","n"," ","m","u","s","k">>, <<"s","a","m"," ","a","l","t","m","a","n">>,
    <<"q","u","e"," ","h","o","r","a">>, <<"q","u","e'"," ","h","o","r","a">>,
    <<"i","n","t","e","r","n","e","t">>
  }

Intents == {"product_search", "product_info", "instruction", "offtopic", "general"}

\* any(palabra in mensaje_lower for palabra in palabras)
AnyIn(palabras, texto) == \E palabra \in palabras : Contains(texto, palabra)

\* detectar_intencion with the instruction keywords looked up first
detectar_intencion_instruccion_primero(mensaje) ==
  LET mensaje_lower == Lower(mensaje)
  IN  IF AnyIn(palabras_instruccion, mensaje_lower) THEN "instruction"
      ELSE IF AnyIn(palabras_producto, mensaje_lower) THEN "product_search"
      ELSE IF AnyIn(palabras_info, mensaje_lower) THEN "product_info"
      ELSE IF AnyIn(palabras_offtopic, mensaje_lower) THEN "offtopic"
      ELSE "general"

detectar_intencion(mensaje) ==
  LET mensaje_lower == Lower(mensaje)
  IN  IF AnyIn(palabras_producto, mensaje_lower) THEN "product_search"
      ELSE IF AnyIn(palabras_info, mensaje_lower) THEN "product_info"
      ELSE IF AnyIn(palabras_instruccion, mensaje_lower) THEN "instruction"
      ELSE IF AnyIn(palabras_offtopic, mensaje_lower) THEN "offtopic"
      ELSE "general"

\* --------------------------------------------- extraer_termino_busqueda

palabras_ignorar ==
  {
    <<"t","i","e","n","e","n">>, <<"h","a","y">>, <<"b","u","s","c","a","r">>,
    <<"b","u","s","c","o">>, <<"v","e","n","d","e","n">>, <<"n","e","c","e","s","i","t","o">>,
    <<"q","u","i","e","r","o">>, <<"e","n","c","u","e","n","t","r","o">>, <<"?">>, <<"~?">>,
    <<"d","e">>, <<"e","l">>, <<"l","a">>, <<"l","o","s">>, <<"l","a","s">>
  }

\* lines 905-920: the words of the message that are not in palabras_ignorar
termino_bruto(mensaje) ==
  LET palabras == Split(Lower(mensaje))
      termino_palabras == SelectSeq(palabras, LAMBDA p : p \notin palabras_ignorar)
  IN  Strip(Join(termino_palabras))

extraer_termino_busqueda(mensaje, cat, db_ok) ==
  normalizar_termino(termino_bruto(mensaje), cat, db_ok)

\* ------------------------------------------------ _calculate_confidence

\* exclusiones: (query word, counter-terms) pairs
exclusiones ==
  <<
    <<<<"m","a","t","e">>,
      {<<"l","a'","t","e","x">>, <<"l","a","t","e","x">>, <<"s","a","t","i","n","a","d","o">>, <<"b","r","i","l","l","a","n","t","e">>, <<"e","s","m","a","l","t","e">>}>>,
    <<<<"l","a'","t","e","x">>,
      {<<"m","a","t","e">>, <<"e","s","m","a","l","t","e">>, <<"o'","l","e","o">>, <<"o","l","e","o">>, <<"a","c","r","i'","l","i","c","o">>, <<"a","c","r","i","l","i","c","o">>}>>,
    <<<<"l","a","t","e","x">>,
      {<<"m","a","t","e">>, <<"e","s","m","a","l","t","e">>, <<"o'","l","e","o">>, <<"o","l","e","o">>, <<"a","c","r","i'","l","i","c","o">>, <<"a","c","r","i","l","i","c","o">>}>>,
    <<<<"c","a","r","r","e","t","i","l","l","a">>,
      {<<"c","e","r","r","a","d","u","r","a">>, <<"c","a","n","d","a","d","o">>, <<"l","l","a","v","e">>, <<"c","h","a","p","a">>}>>,
    <<<<"c","e","r","r","a","d","u","r","a">>,
      {<<"c","a","r","r","e","t","i","l","l","a">>, <<"c","a","r","r","e","t","a">>, <<"c","a","r","r","o">>}>>
  >>

\* the exclusion penalty in tenths: 5 when a query word is a key of the
\* table and one of its counter-terms occurs in the product name, else 0
exclusion_penalty(query_words, product_lower) ==
  IF \E i \in DOMAIN exclusiones :
       /\ exclusiones[i][1] \in query_words
       /\ AnyIn(exclusiones[i][2], product_lower)
    THEN 5 ELSE 0

\* (char_similarity * 0.6) + (word_overlap * 0.4) - exclusion_penalty, as
\* a fraction over 10 * ratio.den * max(len(query_words), 1)
raw_confidence(query, product_name) ==
  LET query_lower == Lower(query)
      product_lower == Lower(product_name)
      char_similarity == ratio(query_lower, product_lower)
      query_words == Range(Split(query_lower))
      product_words == Range(Split(product_lower))
      n == Max(Cardinality(query_words), 1)
      k == Cardinality(query_words \cap product_words)
      pen == exclusion_penalty(query_words, product_lower)
  IN  [num |-> 6 * char_similarity.num * n + 4 * k * char_similarity.den
                 - pen * char_similarity.den * n,
       den |-> 10 * char_similarity.den * n]

\* the combined score left as it is
sin_clamp(c) == c

\* max(0.0, min(1.0, confidence))
clamp(c) == [num |-> Max(0, Min(c.den, c.num)), den |-> c.den]

_calculate_confidence(query, product_name) ==
  clamp(raw_confidence(query, product_name))

\* --------------------------------------------------- preparar_respuesta

MAX_RESPONSE_WORDS == 150

\* the characters the first re.sub keeps:
\* [a-zA-Z0-9\s.,!?¡¿áéíóúÁÉÍÓÚñÑüÜ:;()\-/]
AllowedPunctuation == {".", ",", "!", "?", "~!", "~?", ":", ";", "(", ")", "-", "/"}

AllowedChar(c) ==
  \/ InSeq(LowerAscii, c) \/ InSeq(UpperAscii, c) \/ c \in Digits
  \/ c \in Whitespace \/ c \in AllowedPunctuation
  \/ InSeq(LowerAccent, c) \/ InSeq(UpperAccent, c)

\* re.sub(r'\s+', ' ', s) on s[lo..hi]: every run of whitespace becomes one
\* space (by halves, joining two runs that meet in the middle)
RECURSIVE Collapse(_, _, _)
Collapse(s, lo, hi) ==
  IF lo > hi THEN <<>>
  ELSE IF lo = hi THEN (IF s[lo] \in Whitespace THEN <<" ">> ELSE <<s[lo]>>)
  ELSE LET mid == (lo + hi) \div 2
           l == Collapse(s, lo, mid)
           r == Collapse(s, mid + 1, hi)
       IN  IF l[Len(l)] = " " /\ r[1] = " " THEN l \o Tail(r) ELSE l \o r

\* lines 628-633: strip the disallowed characters, collapse whitespace, strip
limpiar(respuesta) ==
  LET kept == SelectSeq(respuesta, AllowedChar)
  IN  Strip(Collapse(kept, 1, Len(kept)))

Herramientas_header ==
  <<"H","e","r","r","a","m","i","e","n","t","a","s","/","m","a","t","e","r","i","a","l","e","s",
    " ","n","e","c","e","s","a","r","i","o","s",":">>
Materiales_header ==
  <<"M","a","t","e","r","i","a","l","e","s"," ","n","e","c","e","s","a","r","i","o","s",":">>
Precaucion_marker == <<"P","r","e","c","a","u","c","i","o'","n",":">>
StepDigits == {"1","2","3","4","5","6","7","8","9"}

\* es_instruccion that finds no marker
es_instruccion_nunca(respuesta_limpia) == FALSE

\* lines 636-641
es_instruccion(respuesta_limpia) ==
  \/ Contains(respuesta_limpia, Herramientas_header)
  \/ Contains(respuesta_limpia, Materiales_header)
  \/ Contains(respuesta_limpia, Precaucion_marker)
  \/ \E d \in StepDigits : Contains(respuesta_limpia, <<d, ".">>)

\* len(s.split())
NumWords(s) == Cardinality(WordStarts(s))

\* ' '.join(s.split()[:n]) for a text with single spaces and n < NumWords(s):
\* the text up to the end of its n-th word
FirstWords(s, n) ==
  IF n = 0 THEN <<>>
  ELSE LET b == CHOOSE i \in WordStarts(s) :
                  Cardinality({j \in WordStarts(s) : j <= i}) = n + 1
       IN  SubSeq(s, 1, b - 2)

\* str.rfind('.'), 0-based, -1 when there is none
rfind_punto(s) ==
  IF \E i \in 1..Len(s) : s[i] = "."
    THEN (CHOOSE i \in 1..Len(s) :
            s[i] = "." /\ \A j \in (i + 1)..Len(s) : s[j] # ".") - 1
    ELSE -1

\* the largest power of two that is <= p (p >= 1)
RECURSIVE Pow2Floor(_)
Pow2Floor(p) == IF p < 2 THEN 1 ELSE 2 * Pow2Floor(p \div 2)

\* ultimo_punto > len(texto_limitado) * 0.7 in double arithmetic: 0.7 is
\* stored slightly below 7/10, so the product n * 0.7 rounds below 7n/10
\* exactly when 7n/10 lies in the upper eighth of its binade
en_ultimo_tramo(p, n) ==
  \/ 10 * p > 7 * n
  \/ (10 * p = 7 * n /\ p > 0 /\ 4 * p > 7 * Pow2Floor(p))

Ellipsis == <<".", ".", ".">>

\* lines 645-655: the length budget of a non-instruction text
truncar(respuesta_limpia) ==
  IF NumWords(respuesta_limpia) > MAX_RESPONSE_WORDS
    THEN LET texto_limitado == FirstWords(respuesta_limpia, MAX_RESPONSE_WORDS)
             ultimo_punto == rfind_punto(texto_limitado)
         IN  IF en_ultimo_tramo(ultimo_punto, Len(texto_limitado))
               THEN SubSeq(texto_limitado, 1, ultimo_punto + 1)
               ELSE texto_limitado \o Ellipsis
    ELSE respuesta_limpia

preparar_respuesta(respuesta) ==
  LET respuesta_limpia == limpiar(respuesta)
      final == IF es_instruccion(respuesta_limpia) THEN respuesta_limpia
               ELSE truncar(respuesta_limpia)
  IN  IF final # <<>> THEN final ELSE respuesta

\* ------------------------------------------------- InstructionFormatter

task_keywords ==
  {
    <<"t","a","z","a">>, <<"i","n","o","d","o","r","o">>,
    <<"s","a","n","i","t","a","r","i","o">>, <<"w","c">>, <<"r","e","t","r","e","t","e">>,
    <<"c","e","r","a'","m","i","c","a">>, <<"b","a","l","d","o","s","a">>,
    <<"a","z","u","l","e","j","o">>, <<"p","i","s","o"," ","c","e","r","a'","m","i","c","o">>,
    <<"r","e","p","i","s","a">>, <<"e","s","t","a","n","t","e">>,
    <<"a","n","a","q","u","e","l">>,
    <<"m","u","e","b","l","e"," ","d","e"," ","p","a","r","e","d">>,
    <<"p","i","n","t","a","r">>, <<"p","i","n","t","u","r","a">>,
    <<"p","i","n","t","a","r"," ","p","a","r","e","d">>,
    <<"p","i","n","t","a","r"," ","c","a","s","a">>, <<"g","r","i","f","o">>,
    <<"l","l","a","v","e"," ","d","e"," ","a","g","u","a">>, <<"c","a","n","i","l","l","a">>,
    <<"m","e","z","c","l","a","d","o","r","a">>, <<"e","n","c","h","u","f","e">>,
    <<"t","o","m","a","c","o","r","r","i","e","n","t","e">>,
    <<"c","o","n","t","a","c","t","o">>, <<"c","o","r","r","i","e","n","t","e">>,
    <<"e","l","e'","c","t","r","i","c","o">>
  }

instruction_keywords ==
  {
    <<"i","n","s","t","a","l","a","r">>,
    <<"i","n","s","t","r","u","c","c","i","o","n","e","s">>,
    <<"c","o","m","o"," ","h","a","c","e","r">>, <<"p","a","s","o","s"," ","p","a","r","a">>,
    <<"r","e","p","a","r","a","r">>, <<"m","o","n","t","a","r">>
  }

\* InstructionFormatter.format_response(mensaje) without a groq_response:
\* TRUE when it answers from the knowledge base (a task of TOOLS_DATABASE, or
\* the generic procedure), FALSE when it returns the greeting
format_response_has_answer(mensaje) ==
  \/ AnyIn(task_keywords, Lower(mensaje))
  \/ AnyIn(instruction_keywords, Lower(mensaje))

\* -------------------------------------------------------- the assistant

palabras_listado ==
  {
    <<"e","n","u","m","e","r","a">>, <<"l","i","s","t","a">>,
    <<"m","a","t","e","r","i","a","l","e","s">>, <<"p","r","o","d","u","c","t","o","s">>,
    <<"c","a","t","e","g","o","r","i","a","s">>, <<"c","a","t","e","g","o","r","i'","a","s">>
  }

palabras_total ==
  {
    <<"q","u","e'"," ","p","r","o","d","u","c","t","o","s">>,
    <<"p","r","o","d","u","c","t","o","s"," ","t","i","e","n","e","s">>, <<"t","o","t","a","l">>
  }

stock_bajo_kw == <<"s","t","o","c","k"," ","b","a","j","o">>

categoria_kw == {<<"c","a","t","e","g","o","r","i'","a">>, <<"c","a","t","e","g","o","r","i","a","s">>}

\* The texts the user can send
Messages ==
  {
    <<>>, <<" ">>, <<"h","a","y">>, <<"h","a","y"," ","p","a","l","a","s">>,
    <<"H","a","y"," ","m","a","t","e">>, <<"h","a","y"," ","p","a","l","a"," ","2">>,
    <<"h","a","y"," ","m","o","t","t","e">>, <<"s","t","o","c","k"," ","p","a","l","a">>,
    <<"c","o","m","o"," ","p","e","g","a","r">>, <<"i","n","s","t","a","l","a","r">>,
    <<"q","u","i","e","n"," ","e","s">>, <<"h","o","l","a">>, <<"t","o","t","a","l">>,
    <<"s","t","o","c","k"," ","b","a","j","o">>, <<"c","a","t","e","g","o","r","i","a","s">>,
    <<"~?","h","a","y"," ","p","a","l","a","s","?">>
  }

\* turns taken in one run of the model
MaxTurnos == 2

\* empty texts submitted between two turns
MaxVacios == 1

VARIABLES
  catalog,               \* the productos table: ProductIds -> RowStates
  groq_available,        \* GroqService.client is not None
  tts_engine,            \* TTSService.engine is not None
  is_processing,         \* AsistenteView.is_processing
  is_speaking,           \* AsistenteView.is_speaking
  boton,                 \* mode of btn_enviar: "enviar" or "stop"
  last_detected_intent,  \* AsistenteView.last_detected_intent
  last_response_source,  \* AsistenteView.last_response_source
  pc,                    \* where the running enviar_mensaje call stands
  loc,                   \* its locals
  obs,                   \* what the running turn has done so far
  hilos,                 \* the speech threads alive, by phase
  senales,               \* queued TTS signals not yet delivered to the view
  guardado,              \* the last interaction handed to save_interaction
  turnos,                \* turns accepted so far
  vacios,                \* empty texts submitted since the last turn
  h                      \* the function under test and its arguments

vars ==
  <<catalog, groq_available, tts_engine, is_processing, is_speaking, boton,
    last_detected_intent, last_response_source, pc, loc, obs, hilos, senales,
    guardado, turnos, vacios, h>>

Catalogs ==
  {c \in [ProductIds -> RowStates] :
     \A p \in ProductIds \ FilasVariables : c[p] = "inactive"}

\* a response text: which text of the code it is, and the term it quotes
Texto(kind, arg) == [kind |-> kind, arg |-> arg, ids |-> <<>>]

\* a response text that lists products
TextoLista(kind, ids) == [kind |-> kind, arg |-> <<>>, ids |-> ids]

SinTexto == Texto("none", <<>>)

LocInit ==
  [mensaje |-> <<>>, intencion |-> None, termino |-> <<>>,
   productos_encontrados |-> <<>>, respuesta |-> SinTexto]

\* The record of the running turn: the calls made, what they returned, and
\* whether last_detected_intent and last_response_source were assigned
ObsInit ==
  [exact_done |-> FALSE, exact |-> <<>>,
   recheck_done |-> FALSE, recheck |-> <<>>,
   scanned |-> FALSE,
   fuzzy_done |-> FALSE, fuzzy_ret |-> <<>>,
   confidence |-> Zero, penalizado |-> FALSE,
   llm_calls |-> 0, llm_failed |-> FALSE,
   db_calls |-> 0, db_fails |-> 0, via_basico |-> FALSE,
   intent_set |-> FALSE, source_set |-> FALSE]

HIdle == [fase |-> "none"]

\* what a catalog call and an LLM call can do: return, or raise
DbOutcomes == {"ok", "OperationalError"}
LlmOutcomes == {"ok", "ConnectionError", "TimeoutError", "APIError"}

\* whether `except cls:` catches an exception of class exc (every class
\* here derives from Exception)
ExceptMatchesExact(cls, exc) == cls = exc

ExceptMatches(cls, exc) == cls = "Exception" \/ cls = exc

\* the except clauses of procesar_mensaje
handle_mensaje(exc) ==
  IF ExceptMatches("ConnectionError", exc)
    THEN [pc |-> "responder", respuesta |-> Texto("sin_conexion", <<>>)]
  ELSE IF ExceptMatches("TimeoutError", exc)
    THEN [pc |-> "responder", respuesta |-> Texto("tardo_demasiado", <<>>)]
  ELSE IF ExceptMatches("Exception", exc)
    THEN [pc |-> "responder", respuesta |-> Texto("hubo_un_problema", <<>>)]
  ELSE [pc |-> "crashed", respuesta |-> SinTexto]

\* the except clause of procesar_modo_basico
handle_basico(exc) ==
  IF ExceptMatches("Exception", exc)
    THEN [pc |-> "responder", respuesta |-> Texto("basico_error", <<>>)]
  ELSE handle_mensaje(exc)

\* the except clauses of procesar_con_groq: both call procesar_modo_basico
handle_con_groq(exc) ==
  IF ExceptMatches("ConnectionError", exc) \/ ExceptMatches("Exception", exc)
    THEN [pc |-> "basico", respuesta |-> SinTexto]
  ELSE handle_mensaje(exc)

\* lines 1054-1066: the confidence gate on the list search_fuzzy returned
gate_accepts_all(termino, productos_fuzzy) == productos_fuzzy

gate(termino, productos_fuzzy) ==
  IF productos_fuzzy # <<>>
       /\ FracGE(_calculate_confidence(termino, Productos[productos_fuzzy[1]].nombre),
                 ConfidenceGate)
    THEN productos_fuzzy
    ELSE <<>>

\* whether the exclusion penalty applies between the term and a product name
penalty_applies(termino, nombre) ==
  exclusion_penalty(Range(Split(Lower(termino))), Lower(nombre)) > 0


\* nothing handed to save_interaction yet
SinGuardar == [intent |-> None, source |-> None]

\* products listed in a reply of the basic mode
MAX_LIST_ITEMS == 3
Init ==
  /\ catalog \in Catalogs
  /\ groq_available \in BOOLEAN
  /\ tts_engine \in BOOLEAN
  /\ is_processing = FALSE
  /\ is_speaking = FALSE
  /\ boton = "enviar"
  /\ last_detected_intent = None
  /\ last_response_source = None
  /\ pc = "idle"
  /\ loc = LocInit
  /\ obs = ObsInit
  /\ hilos = [nuevos |-> 0, hablando |-> 0, detenidos |-> 0]
  /\ senales = <<>>
  /\ guardado = SinGuardar
  /\ turnos = 0
  /\ vacios = 0
  /\ h = HIdle

\* Another window or process edits the productos table: a row is added,
\* deleted, activated or deactivated
CatalogChange ==
  /\ \E p \in FilasVariables, s \in RowStates :
       /\ s # catalog[p]
       /\ catalog' = [catalog EXCEPT ![p] = s]
  /\ UNCHANGED <<groq_available, tts_engine, is_processing, is_speaking, boton,
                 last_detected_intent, last_response_source, pc, loc, obs, hilos,
                 senales, guardado, turnos, vacios, h>>

\* enviar_mensaje without the check of lines 560-561
EnviarMensajeSinGuarda(texto) ==
  /\ pc = "idle"
  /\ turnos < MaxTurnos
  /\ Strip(texto) = <<>> => vacios < MaxVacios
  /\ vacios' = IF Strip(texto) = <<>> THEN vacios + 1 ELSE 0
  /\ is_processing' = TRUE
  /\ boton' = "stop"
  /\ pc' = "procesar"
  /\ loc' = [LocInit EXCEPT !.mensaje = Strip(texto)]
  /\ obs' = ObsInit
  /\ turnos' = turnos + 1
  /\ UNCHANGED <<catalog, groq_available, tts_engine, is_speaking,
                 last_detected_intent, last_response_source, hilos, senales,
                 guardado, h>>

\* enviar_mensaje, lines 559-576: the text of the input field is read and
\* trimmed, an empty one ends the call; the rest of the handler runs in the
\* steps that follow
EnviarMensaje(texto) ==
  /\ pc = "idle"
  /\ IF Strip(texto) = <<>>
       THEN /\ vacios < MaxVacios
            /\ vacios' = vacios + 1
            /\ UNCHANGED <<is_processing, boton, pc, loc, obs, turnos>>
       ELSE /\ turnos < MaxTurnos
            /\ is_processing' = TRUE
            /\ boton' = "stop"
            /\ pc' = "procesar"
            /\ loc' = [LocInit EXCEPT !.mensaje = Strip(texto)]
            /\ obs' = ObsInit
            /\ turnos' = turnos + 1
            /\ vacios' = 0
  /\ UNCHANGED <<catalog, groq_available, tts_engine, is_speaking,
                 last_detected_intent, last_response_source, hilos, senales,
                 guardado, h>>

\* the frame every step of a turn shares
TurnFrame ==
  UNCHANGED <<catalog, groq_available, tts_engine, is_processing, is_speaking, boton,
              hilos, senales, guardado, turnos, vacios, h>>

\* procesar_mensaje up to the first blocking call of the branch taken:
\* is_available(), detectar_intencion, and in procesar_con_groq the term
\* extraction (product_search), the entity extraction (product_info) or
\* the knowledge base (instruction)
ProcesarMensaje ==
  /\ pc = "procesar"
  /\ IF ~groq_available
       THEN /\ pc' = "basico"
            /\ UNCHANGED <<loc, obs, last_detected_intent, last_response_source>>
       ELSE LET intencion == detectar_intencion(loc.mensaje)
                obs0 == [obs EXCEPT !.intent_set = TRUE]
            IN  /\ last_detected_intent' = intencion
                /\ CASE intencion = "product_search" ->
                          \* normalizar_termino may ask the catalog for the singular;
                          \* it catches the failure of that query
                          LET consulta == consulta_singular(termino_bruto(loc.mensaje))
                              obs1(out) ==
                                IF consulta
                                  THEN [obs0 EXCEPT !.db_calls = @ + 1,
                                          !.db_fails = IF out = "ok" THEN @ ELSE @ + 1]
                                  ELSE obs0
                          IN  \E out \in IF consulta THEN DbOutcomes ELSE {"ok"} :
                            IF out = "ok" \/ ExceptMatches("Exception", out)
                              THEN LET termino == extraer_termino_busqueda(
                                                    loc.mensaje, catalog, out = "ok")
                                   IN  /\ pc' = IF termino = <<>> THEN "responder" ELSE "exact"
                                       /\ loc' = [loc EXCEPT
                                            !.intencion = intencion,
                                            !.termino = termino,
                                            !.respuesta =
                                              IF termino = <<>>
                                                THEN Texto("no_entendi_busqueda", <<>>)
                                                ELSE @]
                                       /\ obs' = obs1(out)
                                       /\ UNCHANGED last_response_source
                              ELSE /\ pc' = handle_con_groq(out).pc
                                   /\ loc' = [loc EXCEPT
                                        !.intencion = intencion,
                                        !.respuesta = handle_con_groq(out).respuesta]
                                   /\ obs' = obs1(out)
                                   /\ UNCHANGED last_response_source
                     [] intencion = "product_info" ->
                          \* get_all_product_names is not a method of
                          \* ProductRepository: the call raises AttributeError,
                          \* extraer_entidad_producto catches it and returns None
                          IF ExceptMatches("Exception", "AttributeError")
                            THEN /\ pc' = "responder"
                                 /\ loc' = [loc EXCEPT
                                      !.intencion = intencion,
                                      !.respuesta =
                                        IF AnyIn(palabras_listado, Lower(loc.mensaje))
                                          THEN Texto("categorias_fijas", <<>>)
                                          ELSE Texto("no_entendi_producto", <<>>)]
                                 /\ last_response_source' = "groq"
                                 /\ obs' = [obs0 EXCEPT !.source_set = TRUE]
                            ELSE /\ pc' = handle_con_groq("AttributeError").pc
                                 /\ loc' = [loc EXCEPT
                                      !.intencion = intencion,
                                      !.respuesta =
                                        handle_con_groq("AttributeError").respuesta]
                                 /\ obs' = obs0
                                 /\ UNCHANGED last_response_source
                     [] intencion = "instruction" /\ format_response_has_answer(loc.mensaje) ->
                          /\ pc' = "responder"
                          /\ loc' = [loc EXCEPT
                               !.intencion = intencion,
                               !.respuesta = Texto("knowledge_base", <<>>)]
                          /\ last_response_source' = "knowledge_base"
                          /\ obs' = [obs0 EXCEPT !.source_set = TRUE]
                     [] OTHER ->
                          /\ pc' = "llm"
                          /\ loc' = [loc EXCEPT !.intencion = intencion]
                          /\ obs' = obs0
                          /\ UNCHANGED last_response_source
  /\ TurnFrame

\* lines 1068-1088, once productos_encontrados is settled
TrasBusqueda(encontrados, obs1) ==
  IF encontrados # <<>>
    THEN /\ pc' = "llm"
         /\ loc' = [loc EXCEPT !.productos_encontrados = encontrados]
         /\ obs' = obs1
         /\ UNCHANGED last_response_source
    ELSE /\ pc' = "responder"
         /\ loc' = [loc EXCEPT
              !.productos_encontrados = <<>>,
              !.respuesta = Texto("no_encontre", loc.termino)]
         /\ obs' = [obs1 EXCEPT !.source_set = TRUE]
         /\ last_response_source' = "database"

\* the record of what search_fuzzy returned and of what the gate computed
ObsGate(obs1, productos_fuzzy) ==
  IF productos_fuzzy = <<>>
    THEN [obs1 EXCEPT !.fuzzy_done = TRUE, !.fuzzy_ret = productos_fuzzy]
    ELSE [obs1 EXCEPT
            !.fuzzy_done = TRUE,
            !.fuzzy_ret = productos_fuzzy,
            !.confidence =
              _calculate_confidence(loc.termino, Productos[productos_fuzzy[1]].nombre),
            !.penalizado =
              penalty_applies(loc.termino, Productos[productos_fuzzy[1]].nombre)]

\* a catalog call of procesar_con_groq raised
FallaCatalogo(out) ==
  /\ pc' = handle_con_groq(out).pc
  /\ loc' = [loc EXCEPT !.respuesta = handle_con_groq(out).respuesta]
  /\ obs' = [obs EXCEPT !.db_calls = @ + 1, !.db_fails = @ + 1]
  /\ UNCHANGED last_response_source

\* line 1050, `if not productos_encontrados`, negated: the fuzzy stage is skipped
exact_is_enough_never(productos) == FALSE

exact_is_enough(productos) == productos # <<>>

\* line 1047: producto_repo.search(termino, solo_activos=True)
BusquedaExacta ==
  /\ pc = "exact"
  /\ \E out \in DbOutcomes :
       IF out = "ok"
         THEN LET productos == search(catalog, loc.termino, TRUE)
                  obs1 == [obs EXCEPT !.exact_done = TRUE, !.exact = productos,
                                      !.db_calls = @ + 1]
              IN  IF exact_is_enough(productos)
                    THEN TrasBusqueda(productos, obs1)
                    ELSE /\ pc' = "fuzzy_exact"
                         /\ obs' = obs1
                         /\ UNCHANGED <<loc, last_response_source>>
         ELSE FallaCatalogo(out)
  /\ UNCHANGED last_detected_intent
  /\ TurnFrame

\* search_fuzzy, line 214, `if exact_results`
recheck_is_enough(exact_results) == exact_results # <<>>

\* search_fuzzy step 1, lines 213-216: the exact search again; a hit is
\* returned to the caller, whose gate (lines 1054-1066) then judges it
FuzzyExacta ==
  /\ pc = "fuzzy_exact"
  /\ \E out \in DbOutcomes :
       IF out = "ok"
         THEN LET exact_results == search(catalog, loc.termino, TRUE)
                  obs1 == [obs EXCEPT !.recheck_done = TRUE, !.recheck = exact_results,
                                      !.db_calls = @ + 1]
              IN  IF recheck_is_enough(exact_results)
                    THEN TrasBusqueda(gate(loc.termino, exact_results),
                                      ObsGate(obs1, exact_results))
                    ELSE /\ pc' = "fuzzy_scan"
                         /\ obs' = obs1
                         /\ UNCHANGED <<loc, last_response_source>>
         ELSE FallaCatalogo(out)
  /\ UNCHANGED last_detected_intent
  /\ TurnFrame

\* search_fuzzy step 2, lines 220-260: get_all() and the scan; then the gate
\* of the caller
FuzzyScan ==
  /\ pc = "fuzzy_scan"
  /\ \E out \in DbOutcomes :
       IF out = "ok"
         THEN LET all_products == get_all(catalog, TRUE)
                  productos_fuzzy ==
                    fuzzy_scan(all_products, catalog, loc.termino, ThresholdFlow, TRUE)
                  obs1 == [obs EXCEPT !.scanned = TRUE, !.db_calls = @ + 1]
              IN  TrasBusqueda(gate(loc.termino, productos_fuzzy),
                               ObsGate(obs1, productos_fuzzy))
         ELSE FallaCatalogo(out)
  /\ UNCHANGED last_detected_intent
  /\ TurnFrame

\* last_response_source after the chat_with_context call of each branch
fuente_llm(intencion) ==
  IF intencion = "product_search" THEN "groq+database" ELSE "groq"

\* GroqService.chat_with_context, lines 105-148: the completion call; an
\* exception is caught by the `except Exception` of line 146 and turned into
\* the service's own error text
ChatWithContext ==
  /\ pc = "llm"
  /\ \E out \in LlmOutcomes :
       IF out = "ok"
         THEN /\ pc' = "responder"
              /\ loc' = [loc EXCEPT !.respuesta = Texto("llm", <<>>)]
              /\ obs' = [obs EXCEPT !.llm_calls = @ + 1, !.source_set = TRUE]
              /\ last_response_source' = fuente_llm(loc.intencion)
         ELSE IF ExceptMatches("Exception", out)
           THEN /\ pc' = "responder"
                /\ loc' = [loc EXCEPT !.respuesta = Texto("llm_error", <<>>)]
                /\ obs' = [obs EXCEPT !.llm_calls = @ + 1, !.llm_failed = TRUE,
                                      !.source_set = TRUE]
                /\ last_response_source' = fuente_llm(loc.intencion)
           ELSE /\ pc' = handle_con_groq(out).pc
                /\ loc' = [loc EXCEPT !.respuesta = handle_con_groq(out).respuesta]
                /\ obs' = [obs EXCEPT !.llm_calls = @ + 1, !.llm_failed = TRUE]
                /\ UNCHANGED last_response_source
  /\ UNCHANGED last_detected_intent
  /\ TurnFrame

\* the first MAX_LIST_ITEMS entries of a list
Primeros(lista) == SubSeq(lista, 1, Min(Len(lista), MAX_LIST_ITEMS))

\* a call of procesar_modo_basico raised
FallaBasico(out) ==
  /\ pc' = handle_basico(out).pc
  /\ loc' = [loc EXCEPT !.respuesta = handle_basico(out).respuesta]
  /\ obs' = [obs EXCEPT !.via_basico = TRUE, !.db_calls = @ + 1, !.db_fails = @ + 1]

\* procesar_modo_basico up to the return or to its second catalog call
ModoBasico ==
  /\ pc = "basico"
  /\ LET mensaje_lower == Lower(loc.mensaje)
         listo(texto) ==
           /\ pc' = "responder"
           /\ loc' = [loc EXCEPT !.respuesta = texto]
           /\ obs' = [obs EXCEPT !.via_basico = TRUE, !.db_calls = @ + 1]
     IN  IF Contains(mensaje_lower, stock_bajo_kw)
           THEN \E out \in DbOutcomes :
                  IF out = "ok"
                    THEN LET productos == get_stock_bajo(catalog)
                         IN  IF productos = <<>>
                               THEN listo(Texto("no_stock_bajo", <<>>))
                               ELSE listo(TextoLista("stock_bajo", Primeros(productos)))
                    ELSE FallaBasico(out)
         ELSE IF AnyIn(categoria_kw, mensaje_lower)
           THEN \E out \in DbOutcomes :
                  IF out = "ok"
                    THEN /\ pc' = "basico2"
                         /\ obs' = [obs EXCEPT !.via_basico = TRUE, !.db_calls = @ + 1]
                         /\ UNCHANGED loc
                    ELSE FallaBasico(out)
         ELSE IF AnyIn(palabras_total, mensaje_lower)
           \* count_active_products is a method of CategoriaRepository, not of
           \* the ProductRepository in producto_repo: AttributeError
           THEN FallaBasico("AttributeError")
         ELSE \E out \in DbOutcomes :
                IF out = "ok"
                  THEN LET productos == search(catalog, loc.mensaje, TRUE)
                       IN  IF productos = <<>>
                             THEN listo(Texto("no_encontre_basico", loc.mensaje))
                             ELSE /\ pc' = "basico2"
                                  /\ loc' = [loc EXCEPT
                                       !.productos_encontrados = Primeros(productos)]
                                  /\ obs' = [obs EXCEPT !.via_basico = TRUE,
                                                        !.db_calls = @ + 1]
                  ELSE FallaBasico(out)
  /\ UNCHANGED <<last_detected_intent, last_response_source>>
  /\ TurnFrame

\* the second catalog call of procesar_modo_basico: cat_repo.get_all() of
\* line 1212, or search(mensaje) of line 1234, whose length alone is used
ModoBasico2 ==
  /\ pc = "basico2"
  /\ \E out \in DbOutcomes :
       IF out = "ok"
         THEN /\ pc' = "responder"
              /\ loc' = [loc EXCEPT !.respuesta =
                   IF AnyIn(categoria_kw, Lower(loc.mensaje))
                     THEN Texto("categorias", <<>>)
                     ELSE TextoLista("encontre", loc.productos_encontrados)]
              /\ obs' = [obs EXCEPT !.db_calls = @ + 1]
         ELSE FallaBasico(out)
  /\ UNCHANGED <<last_detected_intent, last_response_source>>
  /\ TurnFrame

\* `x or "unknown"` of lines 600-601
OrUnknown(x) == IF x = None THEN "unknown" ELSE x

\* enviar_mensaje, lines 581-614, after procesar_mensaje returned: the reply
\* is shown, the interaction is handed to save_interaction (a failure is
\* caught and logged) and TTSService.speak starts a thread if there is an engine
Responder ==
  /\ pc = "responder"
  /\ is_processing
  /\ \E out \in DbOutcomes :
       IF out = "ok" \/ ExceptMatches("Exception", out)
         THEN /\ guardado' = IF out = "ok"
                               THEN [intent |-> OrUnknown(last_detected_intent),
                                     source |-> OrUnknown(last_response_source)]
                               ELSE guardado
              /\ hilos' = IF tts_engine THEN [hilos EXCEPT !.nuevos = @ + 1] ELSE hilos
              /\ pc' = "idle"
         ELSE /\ pc' = "crashed"
              /\ UNCHANGED <<guardado, hilos>>
  /\ loc' = LocInit
  /\ obs' = ObsInit
  /\ UNCHANGED <<catalog, groq_available, tts_engine, is_processing, is_speaking, boton,
                 last_detected_intent, last_response_source, senales, turnos, vacios, h>>

\* TTSService._speak_thread, line 88: the thread emits speaking_started and
\* starts to speak
HiloInicia ==
  /\ hilos.nuevos > 0
  /\ hilos' = [hilos EXCEPT !.nuevos = @ - 1, !.hablando = @ + 1]
  /\ senales' = Append(senales, "speaking_started")
  /\ UNCHANGED <<catalog, groq_available, tts_engine, is_processing, is_speaking, boton,
                 last_detected_intent, last_response_source, pc, loc, obs, guardado,
                 turnos, vacios, h>>

\* TTSService._speak_thread, lines 89-94: the speech ends, or fails, or is
\* stopped, and the thread emits speaking_finished; the thread is one that
\* TTSService.stop reached, or one it did not
HiloTermina ==
  /\ hilos.hablando > 0
  /\ \E detenido \in BOOLEAN :
       IF detenido
         THEN /\ hilos.detenidos > 0
              /\ hilos' = [hilos EXCEPT !.hablando = @ - 1, !.detenidos = @ - 1]
         ELSE /\ hilos.hablando > hilos.detenidos
              /\ hilos' = [hilos EXCEPT !.hablando = @ - 1]
  /\ senales' = Append(senales, "speaking_finished")
  /\ UNCHANGED <<catalog, groq_available, tts_engine, is_processing, is_speaking, boton,
                 last_detected_intent, last_response_source, pc, loc, obs, guardado,
                 turnos, vacios, h>>

\* on_speaking_started / on_speaking_finished: the view's thread runs the
\* slot of the oldest queued signal, between two handlers
EntregarSenal ==
  /\ pc = "idle"
  /\ senales # <<>>
  /\ senales' = Tail(senales)
  /\ IF Head(senales) = "speaking_started"
       THEN /\ is_speaking' = TRUE
            /\ boton' = "stop"
            /\ UNCHANGED is_processing
       ELSE /\ is_speaking' = FALSE
            /\ is_processing' = FALSE
            /\ boton' = "enviar"
  /\ UNCHANGED <<catalog, groq_available, tts_engine, last_detected_intent,
                 last_response_source, pc, loc, obs, hilos, guardado, turnos, vacios, h>>

\* toggle_enviar_stop with is_processing or is_speaking set:
\* detener_procesamiento; TTSService.stop reaches the threads that are
\* speaking
DetenerProcesamiento ==
  /\ pc = "idle"
  /\ is_processing \/ is_speaking
  /\ hilos' = IF tts_engine THEN [hilos EXCEPT !.detenidos = hilos.hablando] ELSE hilos
  /\ is_processing' = FALSE
  /\ is_speaking' = FALSE
  /\ boton' = "enviar"
  /\ UNCHANGED <<catalog, groq_available, tts_engine, last_detected_intent,
                 last_response_source, pc, loc, obs, senales, guardado,
                 turnos, vacios, h>>

Next ==
  \/ CatalogChange
  \/ \E texto \in Messages : EnviarMensaje(texto)
  \/ ProcesarMensaje
  \/ BusquedaExacta
  \/ FuzzyExacta
  \/ FuzzyScan
  \/ ChatWithContext
  \/ ModoBasico
  \/ ModoBasico2
  \/ Responder
  \/ HiloInicia
  \/ HiloTermina
  \/ EntregarSenal
  \/ DetenerProcesamiento

Spec == Init /\ [][Next]_vars

\* the steps of a running enviar_mensaje call
PasoDeTurno ==
  \/ ProcesarMensaje
  \/ BusquedaExacta
  \/ FuzzyExacta
  \/ FuzzyScan
  \/ ChatWithContext
  \/ ModoBasico
  \/ ModoBasico2
  \/ Responder

\* the texts sent in the runs checked for progress: one per path of a turn
MensajesJustos ==
  {<<" ">>, <<"h","a","y"," ","m","o","t","t","e">>, <<"c","a","t","e","g","o","r","i","a","s">>}

NextJusto ==
  \/ CatalogChange
  \/ \E texto \in MensajesJustos : EnviarMensaje(texto)
  \/ PasoDeTurno
  \/ HiloInicia
  \/ HiloTermina
  \/ EntregarSenal
  \/ DetenerProcesamiento

\* the positions of the handler of a turn
Posiciones ==
  {"idle", "procesar", "exact", "fuzzy_exact", "fuzzy_scan", "llm", "basico",
   "basico2", "responder", "crashed"}

\* the handler of a turn is running: it was entered and has neither returned
\* nor been left by an exception
EnCurso == pc \notin {"idle", "crashed"}

\* the running handler executes its next statement; each step of
\* PasoDeTurno moves the position, and no other action moves it while a
\* handler runs
TurnoAvanza == EnCurso /\ pc' \in Posiciones \ {pc}

\* a handler that was entered runs on, every speech thread starts and
\* finishes, and the event loop delivers the queued signals; the user is
\* free to send, to stop, or to do nothing
SpecJusto ==
  /\ Init
  /\ [][NextJusto]_vars
  /\ WF_pc(TurnoAvanza)
  /\ WF_vars(HiloInicia)
  /\ WF_vars(HiloTermina)
  /\ WF_vars(EntregarSenal)
\* ------------------------------------------------------- function runs
\* Specifications that run one function of the assistant on a range of
\* arguments. h holds the arguments and the results; the rest of the view
\* stays as constructed.

ViewInit ==
  /\ groq_available = TRUE
  /\ tts_engine = TRUE
  /\ is_processing = FALSE
  /\ is_speaking = FALSE
  /\ boton = "enviar"
  /\ last_detected_intent = None
  /\ last_response_source = None
  /\ pc = "idle"
  /\ loc = LocInit
  /\ obs = ObsInit
  /\ hilos = [nuevos |-> 0, hablando |-> 0, detenidos |-> 0]
  /\ senales = <<>>
  /\ guardado = SinGuardar
  /\ turnos = 0
  /\ vacios = 0

ViewFrame ==
  UNCHANGED <<catalog, groq_available, tts_engine, is_processing, is_speaking, boton,
              last_response_source, pc, loc, obs, hilos, senales, guardado, turnos, vacios>>

\* ---- normalizar_termino

\* trailing 's' appended to a term
MaxEses == 2

TerminoPrefijos ==
  {
    <<>>, <<"~?">>, <<" ">>
  }

TerminoRaices ==
  {
    <<"p","a","l","a">>, <<"M","a","r","t","i","l","l","o">>, <<"l","a","t","e","x">>,
    <<"c","l","a","v","o">>, <<"g","a","s">>
  }

TerminoSufijos ==
  {
    <<>>, <<"?">>, <<"!">>
  }

Eses(k) == [i \in 1..k |-> "s"]

Terminos ==
  {pre \o raiz \o Eses(k) \o suf :
     pre \in TerminoPrefijos, raiz \in TerminoRaices, k \in 0..MaxEses,
     suf \in TerminoSufijos}

InitNormalizar ==
  /\ ViewInit
  /\ catalog \in Catalogs
  /\ \E x \in Terminos, db_ok \in BOOLEAN :
       h = [fase |-> "entrada", x |-> x, db_ok |-> db_ok, y |-> <<>>, z |-> <<>>]

\* normalizar_termino(x)
Normalizar ==
  /\ h.fase = "entrada"
  /\ h' = [h EXCEPT !.fase = "una", !.y = normalizar_termino(h.x, catalog, h.db_ok)]
  /\ UNCHANGED last_detected_intent
  /\ ViewFrame

\* normalizar_termino of the result, the catalog being the same
NormalizarOtraVez ==
  /\ h.fase = "una"
  /\ h' = [h EXCEPT !.fase = "dos", !.z = normalizar_termino(h.y, catalog, h.db_ok)]
  /\ UNCHANGED last_detected_intent
  /\ ViewFrame

NextNormalizar == Normalizar \/ NormalizarOtraVez

SpecNormalizar == InitNormalizar /\ [][NextNormalizar]_vars

\* C2: normalization is idempotent: normalizing the result of
\* normalizar_termino again, against the same catalog, gives that result
\* back
C2_Idempotente == h.fase = "dos" => h.z = h.y

\* ---- detectar_intencion

\* fragments joined into one utterance
MaxFragmentos == 2

Fragmentos ==
  {
    <<"h","a","y">>, <<"T","i","e","n","e","n">>, <<"s","t","o","c","k">>,
    <<"P","R","E","C","I","O">>, <<"c","o","m","o">>, <<"i","n","s","t","a","l","a","r">>,
    <<"q","u","i","e","n"," ","e","s">>, <<"i","n","t","e","r","n","e","t">>,
    <<"h","o","l","a">>, <<"p","a","l","a">>
  }

RECURSIVE Frases(_)
Frases(n) ==
  IF n = 0 THEN {<<>>}
  ELSE Frases(n - 1) \cup {f \o <<" ">> \o g : f \in Frases(n - 1) \ {<<>>}, g \in Fragmentos}
         \cup Fragmentos

InitIntencion ==
  /\ ViewInit
  /\ catalog = [p \in ProductIds |-> "active"]
  /\ \E x \in Frases(MaxFragmentos) : h = [fase |-> "entrada", x |-> x, r |-> None]

\* detectar_intencion(x): the intent is returned and kept in
\* last_detected_intent
DetectarIntencion ==
  /\ h.fase = "entrada"
  /\ h' = [h EXCEPT !.fase = "hecho", !.r = detectar_intencion(h.x)]
  /\ last_detected_intent' = detectar_intencion(h.x)
  /\ ViewFrame

NextIntencion == DetectarIntencion

SpecIntencion == InitIntencion /\ [][NextIntencion]_vars

\* C3: the intent is one of the five, and it is the first category, in the
\* order product_search, product_info, instruction, offtopic, that has a
\* keyword in the lower-cased utterance, general when none has; so an
\* utterance with a product_search keyword and an instruction keyword is a
\* product_search
C3_Prioridad ==
  LET Menciona(palabras) == \E palabra \in palabras : Contains(Lower(h.x), palabra)
  IN  h.fase = "hecho" =>
        /\ h.r \in Intents
        /\ last_detected_intent = h.r
        /\ (h.r = "product_search") = Menciona(palabras_producto)
        /\ (h.r = "product_info") =
             (~Menciona(palabras_producto) /\ Menciona(palabras_info))
        /\ (h.r = "instruction") =
             /\ ~Menciona(palabras_producto) /\ ~Menciona(palabras_info)
             /\ Menciona(palabras_instruccion)
        /\ (h.r = "offtopic") =
             /\ ~Menciona(palabras_producto) /\ ~Menciona(palabras_info)
             /\ ~Menciona(palabras_instruccion) /\ Menciona(palabras_offtopic)
        /\ (Menciona(palabras_producto) /\ Menciona(palabras_instruccion)
              => h.r = "product_search")

\* an utterance with a product_search keyword and an instruction keyword
C3_Witness ==
  /\ h.fase = "hecho"
  /\ \E palabra \in palabras_producto : Contains(Lower(h.x), palabra)
  /\ \E palabra \in palabras_instruccion : Contains(Lower(h.x), palabra)
  /\ h.r = "product_search"

\* ---- _calculate_confidence

\* words in a query and in a product name
MaxPalabras == 2

Vocabulario ==
  {
    <<"m","a","t","e">>, <<"l","a","t","e","x">>, <<"P","a","l","a">>, <<"x">>
  }

RECURSIVE Nombres(_)
Nombres(n) ==
  IF n = 0 THEN {<<>>}
  ELSE Nombres(n - 1)
         \cup {f \o <<" ">> \o g : f \in Nombres(n - 1) \ {<<>>}, g \in Vocabulario}
         \cup Vocabulario

InitConfianza ==
  /\ ViewInit
  /\ catalog = [p \in ProductIds |-> "active"]
  /\ \E query \in Nombres(MaxPalabras), product_name \in Nombres(MaxPalabras) \ {<<>>} :
       h = [fase |-> "entrada", query |-> query, product_name |-> product_name,
            raw |-> Zero, r |-> Zero]

\* _calculate_confidence(query, product_name)
CalcularConfianza ==
  /\ h.fase = "entrada"
  /\ h' = [h EXCEPT !.fase = "hecho",
                    !.raw = raw_confidence(h.query, h.product_name),
                    !.r = _calculate_confidence(h.query, h.product_name)]
  /\ UNCHANGED last_detected_intent
  /\ ViewFrame

NextConfianza == CalcularConfianza

SpecConfianza == InitConfianza /\ [][NextConfianza]_vars

\* C4: the confidence of every (query, product name) pair lies in [0, 1],
\* with or without the exclusion penalty
C4_Acotada ==
  h.fase = "hecho" => (h.r.den > 0 /\ 0 <= h.r.num /\ h.r.num <= h.r.den)

\* the penalty applies and takes the combined score below zero
C4_Witness ==
  /\ h.fase = "hecho"
  /\ penalty_applies(h.query, h.product_name)
  /\ h.raw.num < 0
  /\ h.r.num = 0

\* ---- preparar_respuesta

\* words of filler in the longest text
MaxRelleno == 400

Cabezas ==
  {

    <<"P","r","e","c","a","u","c","i","o'","n",":"," ","u","s","a","r"," ","g","u","a","n","t","e","s">>,
    <<"<emoji>"," ","P","r","e","c","a","u","c","i","o'","n",":"," ","u","s","a","r"," ","g","u","a","n","t","e","s">>,
    <<"M","a","t","e","r","i","a","l","e","s"," ","n","e","c","e","s","a","r","i","o","s",":"," ","c","l","a","v","o","s">>,
    <<"H","e","r","r","a","m","i","e","n","t","a","s","/","m","a","t","e","r","i","a","l","e","s"," ","n","e","c","e","s","a","r","i","o","s",":"," ","p","a","l","a">>,
    <<"1","."," ","c","o","r","t","a","r">>, <<"<bull>"," ","2","."," ","p","e","g","a","r">>,
    <<"a","v","i","s","o">>, <<"A","v","i","s","o",".">>, <<"<emoji>">>
  }

Rellenos ==
  {
    <<" ","y">>, <<" ","y",".">>
  }

\* how a text ends
Colas ==
  {
    <<>>, <<" ","f","i","n","."," ","y"," ","y">>
  }

\* k copies of a filler
Repetir(w, k) == [i \in 1..(k * Len(w)) |-> w[((i - 1) % Len(w)) + 1]]

Largos ==
  {0, 1, MaxRelleno}
    \cup {k \in (MAX_RESPONSE_WORDS - 3)..(MAX_RESPONSE_WORDS + 2) : k <= MaxRelleno}

InitPreparar ==
  /\ ViewInit
  /\ catalog = [p \in ProductIds |-> "active"]
  /\ \E x \in {cabeza \o Repetir(w, k) \o cola :
                   cabeza \in Cabezas, w \in Rellenos, k \in Largos, cola \in Colas}
                \cup {Repetir(<<"<emoji>", " ">>, k) : k \in Largos} :
       h = [fase |-> "entrada", x |-> x, r |-> <<>>]

\* preparar_respuesta(x)
PrepararRespuesta ==
  /\ h.fase = "entrada"
  /\ h' = [h EXCEPT !.fase = "hecho", !.r = preparar_respuesta(h.x)]
  /\ UNCHANGED last_detected_intent
  /\ ViewFrame

NextPreparar == PrepararRespuesta

SpecPreparar == InitPreparar /\ [][NextPreparar]_vars

\* C5, as the spec states it: a text with a caution marker, a materials
\* header or a step marker comes back with the number of words it had, and
\* without an ellipsis
C5_MismasPalabras ==
  LET TieneMarcador ==
        \/ Contains(h.x, Precaucion_marker)
        \/ Contains(h.x, Materiales_header)
        \/ Contains(h.x, Herramientas_header)
        \/ \E i \in 1..(Len(h.x) - 1) : h.x[i] \in StepDigits /\ h.x[i + 1] = "."
  IN  (h.fase = "hecho" /\ TieneMarcador) =>
        /\ NumWords(h.r) = NumWords(h.x)
        /\ ~(Len(h.r) >= 3 /\ SubSeq(h.r, Len(h.r) - 2, Len(h.r)) = Ellipsis)

\* C5, amended: a text with a caution marker, a materials header or a step
\* marker comes back whole whatever its length: every word that holds a
\* character the cleaning keeps is still there (the words made only of
\* stripped characters, an emoji or a bullet standing alone, are gone), the
\* last word is not cut and no ellipsis is appended
C5_SinTruncar ==
  LET TieneMarcador ==
        \/ Contains(h.x, Precaucion_marker)
        \/ Contains(h.x, Materiales_header)
        \/ Contains(h.x, Herramientas_header)
        \/ \E i \in 1..(Len(h.x) - 1) : h.x[i] \in StepDigits /\ h.x[i + 1] = "."
      PalabrasVisibles ==
        Cardinality({i \in WordStarts(h.x) :
           \E j \in i..Len(h.x) :
             /\ AllowedChar(h.x[j])
             /\ \A k \in i..j : h.x[k] \notin Whitespace})
  IN  (h.fase = "hecho" /\ TieneMarcador) =>
        /\ NumWords(h.r) = PalabrasVisibles
        /\ ~(Len(h.r) >= 3 /\ SubSeq(h.r, Len(h.r) - 2, Len(h.r)) = Ellipsis)
        /\ h.r[Len(h.r)] = h.x[Len(h.x)]

\* a text with a caution marker and more than MAX_RESPONSE_WORDS words, one
\* of them an emoji standing alone, was prepared
C5_Witness ==
  /\ h.fase = "hecho"
  /\ Contains(h.x, Precaucion_marker)
  /\ h.x[1] = "<emoji>"
  /\ NumWords(h.x) > MAX_RESPONSE_WORDS + 2
  /\ NumWords(h.r) = NumWords(h.x) - 1

\* ------------------------------------------------------------ the turn

\* C1: in a product lookup, once the exact search has returned a product
\* the fuzzy scan is not run and the exact results are the ones returned:
\* in the product_search flow no part of search_fuzzy runs and
\* productos_encontrados is the exact result; in search_fuzzy the scan is
\* skipped and the result of its exact search is what it returns
C1_ExactoPrimero ==
  /\ (obs.exact_done /\ obs.exact # <<>>) =>
       /\ ~obs.recheck_done /\ ~obs.scanned /\ ~obs.fuzzy_done
       /\ (pc \in {"llm", "responder"} => loc.productos_encontrados = obs.exact)
  /\ (obs.recheck_done /\ obs.recheck # <<>>) =>
       /\ ~obs.scanned
       /\ obs.fuzzy_done /\ obs.fuzzy_ret = obs.recheck

\* the exact search hit and the turn went on to the LLM with its result
C1_Witness ==
  /\ pc = "llm"
  /\ loc.intencion = "product_search"
  /\ obs.exact_done /\ obs.exact # <<>>
  /\ loc.productos_encontrados = obs.exact
  /\ obs.db_calls >= 1

\* C6: in the product_search flow, when the exclusion penalty applies to
\* the first candidate search_fuzzy returned, the confidence is below the
\* gate of 0.80 and the lookup counts as no match: no candidate is kept,
\* the LLM is not asked and the reply is the 'not found' text
C6_Exclusion ==
  (obs.fuzzy_done /\ obs.fuzzy_ret # <<>>
     /\ penalty_applies(loc.termino, Productos[obs.fuzzy_ret[1]].nombre)) =>
    /\ 100 * obs.confidence.num < 80 * obs.confidence.den
    /\ loc.productos_encontrados = <<>>
    /\ obs.llm_calls = 0
    /\ pc = "responder"
    /\ loc.respuesta = Texto("no_encontre", loc.termino)

\* the scan returned a candidate on which the penalty applies
C6_Witness ==
  /\ pc = "responder"
  /\ obs.scanned /\ obs.fuzzy_ret # <<>>
  /\ obs.penalizado
  /\ loc.productos_encontrados = <<>>
  /\ loc.respuesta.kind = "no_encontre"

\* C7: a text that is empty once trimmed is turned away by enviar_mensaje
\* before anything else: the step that takes it starts no turn (no catalog
\* search, no LLM call, no interaction saved, no speech) and leaves
\* is_processing, is_speaking, the button and the last intent and source
\* as they were
C7_VacioRechazado ==
  [][vacios' > vacios =>
       UNCHANGED <<catalog, is_processing, is_speaking, boton, last_detected_intent,
                   last_response_source, pc, loc, obs, hilos, senales, guardado,
                   turnos>>]_vars

\* an empty text was submitted after a turn that left is_processing set
C7_Witness ==
  /\ vacios > 0
  /\ turnos > 0
  /\ is_processing
  /\ pc = "idle"

\* C8: when the completion call fails in a turn handled by
\* procesar_con_groq, the reply of the turn is the one of
\* procesar_modo_basico and not an error text of the LLM service
C8_Degrada ==
  (pc = "responder" /\ obs.llm_failed) =>
    (obs.via_basico /\ loc.respuesta.kind # "llm_error")

\* C9: a turn never fails: whatever the catalog and the LLM provider do,
\* procesar_mensaje raises nothing and returns a text
C9_NuncaFalla ==
  /\ pc \in {"idle", "procesar", "exact", "fuzzy_exact", "fuzzy_scan", "llm", "basico",
             "basico2", "responder"}
  /\ pc = "responder" => loc.respuesta.kind # "none"

\* the catalog failed in procesar_con_groq and again in the fallback
C9_Witness ==
  /\ pc = "responder"
  /\ groq_available
  /\ obs.db_fails >= 2
  /\ obs.via_basico
  /\ loc.respuesta.kind = "basico_error"

\* C10: in the product_search flow, when the cascade ends with no product
\* (the exact search found nothing and search_fuzzy returned nothing, or
\* its first candidate is below the gate), the LLM is not called in the turn
\* and the reply is the fixed 'not found' text with the term, the same in
\* both cases
C10_SinInventar ==
  (/\ pc = "responder"
   /\ loc.intencion = "product_search"
   /\ ~obs.via_basico
   /\ obs.exact_done /\ obs.exact = <<>>
   /\ obs.fuzzy_done
   /\ (obs.fuzzy_ret = <<>> \/ 100 * obs.confidence.num < 80 * obs.confidence.den)) =>
    /\ obs.llm_calls = 0
    /\ loc.respuesta = Texto("no_encontre", loc.termino)
    /\ last_response_source = "database"

\* a candidate without penalty was turned down by the gate
C10_Witness ==
  /\ pc = "responder"
  /\ loc.intencion = "product_search"
  /\ obs.fuzzy_ret # <<>>
  /\ ~obs.penalizado
  /\ 100 * obs.confidence.num < 80 * obs.confidence.den
  /\ obs.llm_calls = 0
  /\ loc.respuesta = Texto("no_encontre", loc.termino)


\* ------------------------------------------------- the plural heuristic

C15_Presupuesto ==
  LET limpio == limpiar(h.x)
      estructurado ==
        \/ Contains(limpio, Precaucion_marker)
        \/ Contains(limpio, Materiales_header)
        \/ Contains(limpio, Herramientas_header)
        \/ \E i \in 1..(Len(limpio) - 1) : limpio[i] \in StepDigits /\ limpio[i + 1] = "."
      prefijo == FirstWords(limpio, MAX_RESPONSE_WORDS)
      punto == rfind_punto(prefijo)
  IN  (h.fase = "hecho" /\ ~estructurado) =>
        /\ NumWords(limpio) <= MAX_RESPONSE_WORDS => h.r = limpio
        /\ NumWords(limpio) > MAX_RESPONSE_WORDS =>
             \/ /\ punto >= 0 /\ 10 * punto >= 7 * Len(prefijo)
                /\ h.r = SubSeq(prefijo, 1, punto + 1)
             \/ h.r = prefijo \o Ellipsis
        /\ NumWords(h.r) <= MAX_RESPONSE_WORDS

\* ------------------------------------------------------ the stock monitor
\* StockMonitorService and the 'ignore for today' map of
\* AlertaAutorizacionDialog. h holds the state of both:
\*   hoy           date.today(), as a day number
\*   activo        StockMonitorService._activo
\*   notificados   StockMonitorService._productos_notificados
\*   disparos      QTimer.singleShot calls of iniciar() not yet fired
\*   ignorados     _ignorados_hoy: product id -> day, 0 for no entry
\*   evento        what the last step did
\*   desde_limpieza  the ids emitted since _productos_notificados.clear() last ran
\*   emitido       the list of the last alertas_detectadas emission
\*   consulta      the list productos_ignorados_hoy was last called with
\*   visibles      what it returned

\* days the model runs through
MaxDias == 2

\* pending single-shot checks
MaxDisparos == 1

\* ProductRepository.get_low_stock: order_by(stock.asc())
RECURSIVE PorStock(_)
PorStock(S) ==
  IF S = {} THEN <<>>
  ELSE LET m == CHOOSE x \in S :
                  \A y \in S : \/ Productos[x].stock < Productos[y].stock
                               \/ (Productos[x].stock = Productos[y].stock /\ x <= y)
       IN  <<m>> \o PorStock(S \ {m})

get_low_stock(cat, solo_activos) ==
  PorStock({p \in ProductIds :
              /\ Productos[p].stock <= Productos[p].stock_minimo
              /\ (cat[p] = "active" \/ (~solo_activos /\ cat[p] = "inactive"))})

\* a filter that drops a product stamped on any day
productos_ignorados_siempre(productos, ignorados, hoy) ==
  SelectSeq(productos, LAMBDA p : ignorados[p] = 0)

\* productos_ignorados_hoy(productos)
productos_ignorados_hoy(productos, ignorados, hoy) ==
  SelectSeq(productos, LAMBDA p : ignorados[p] # hoy)

InitAlertas ==
  /\ ViewInit
  /\ catalog \in Catalogs
  /\ h = [fase |-> "monitor", hoy |-> 1, activo |-> FALSE, notificados |-> {},
          disparos |-> 0, ignorados |-> [p \in ProductIds |-> 0],
          evento |-> "creado", emitido |-> <<>>, consulta |-> <<>>,
          visibles |-> <<>>, desde_limpieza |-> {}]

AlertasFrame ==
  UNCHANGED <<groq_available, tts_engine, is_processing, is_speaking, boton,
              last_detected_intent, last_response_source, pc, loc, obs, hilos,
              senales, guardado, turnos, vacios>>

\* StockMonitorService.iniciar
Iniciar(verificar_ahora) ==
  /\ IF h.activo
       THEN h' = [h EXCEPT !.evento = "iniciar"]
       ELSE /\ verificar_ahora => h.disparos < MaxDisparos
            /\ h' = [h EXCEPT !.activo = TRUE,
                              !.disparos = IF verificar_ahora THEN @ + 1 ELSE @,
                              !.evento = "iniciar"]
  /\ UNCHANGED catalog
  /\ AlertasFrame

\* StockMonitorService.detener
Detener ==
  /\ IF ~h.activo
       THEN h' = [h EXCEPT !.evento = "detener"]
       ELSE h' = [h EXCEPT !.activo = FALSE, !.notificados = {}, !.evento = "detener",
                         !.desde_limpieza = {}]
  /\ UNCHANGED catalog
  /\ AlertasFrame

\* StockMonitorService.resetear_notificaciones
ResetearNotificaciones ==
  /\ h' = [h EXCEPT !.notificados = {}, !.evento = "resetear", !.desde_limpieza = {}]
  /\ UNCHANGED catalog
  /\ AlertasFrame

\* a check that emits every low-stock product it finds
VerificarSinFiltro(por_disparo) ==
  /\ IF por_disparo THEN h.disparos > 0 ELSE h.activo
  /\ \E out \in DbOutcomes :
       LET h1 == IF por_disparo THEN [h EXCEPT !.disparos = @ - 1] ELSE h
           todos_bajo_stock == get_low_stock(catalog, TRUE)
           nuevos == todos_bajo_stock
       IN  IF out # "ok" \/ todos_bajo_stock = <<>> \/ nuevos = <<>>
             THEN h' = [h1 EXCEPT !.evento = "sin_emision"]
             ELSE h' = [h1 EXCEPT !.notificados = @ \cup Range(nuevos),
                                  !.evento = "emision",
                                  !.emitido = nuevos,
                                  !.desde_limpieza = @ \cup Range(nuevos)]
  /\ UNCHANGED catalog
  /\ AlertasFrame

\* StockMonitorService._verificar, run by the periodic timer while it is
\* started (por_disparo = FALSE) or by a pending single shot (TRUE)
Verificar(por_disparo) ==
  /\ IF por_disparo THEN h.disparos > 0 ELSE h.activo
  /\ \E out \in DbOutcomes :
       LET h1 == IF por_disparo THEN [h EXCEPT !.disparos = @ - 1] ELSE h
           todos_bajo_stock == get_low_stock(catalog, TRUE)
           nuevos == SelectSeq(todos_bajo_stock, LAMBDA p : p \notin h.notificados)
       IN  IF out # "ok" \/ todos_bajo_stock = <<>> \/ nuevos = <<>>
             THEN h' = [h1 EXCEPT !.evento = "sin_emision"]
             ELSE h' = [h1 EXCEPT !.notificados = @ \cup Range(nuevos),
                                  !.evento = "emision",
                                  !.emitido = nuevos,
                                  !.desde_limpieza = @ \cup Range(nuevos)]
  /\ UNCHANGED catalog
  /\ AlertasFrame

\* AlertaAutorizacionDialog._ignorar_dia, in a dialog opened over productos
IgnorarDia(productos) ==
  /\ h' = [h EXCEPT
             !.ignorados = [p \in ProductIds |-> IF p \in productos THEN h.hoy ELSE @[p]],
             !.evento = "ignorar"]
  /\ UNCHANGED catalog
  /\ AlertasFrame

\* the lists handed to the filter
ListasFiltradas == {<<>>, <<1>>, <<2, 3>>, <<3, 1, 2>>}

\* a caller filters a list of products with productos_ignorados_hoy
FiltrarIgnorados(productos) ==
  /\ h' = [h EXCEPT
             !.consulta = productos,
             !.visibles = productos_ignorados_hoy(productos, h.ignorados, h.hoy),
             !.evento = "filtrar"]
  /\ UNCHANGED catalog
  /\ AlertasFrame

\* midnight: date.today() moves on
CambiaDia ==
  /\ h.hoy < MaxDias
  /\ h' = [h EXCEPT !.hoy = @ + 1, !.evento = "dia"]
  /\ UNCHANGED catalog
  /\ AlertasFrame

NextAlertas ==
  \/ \E verificar_ahora \in BOOLEAN : Iniciar(verificar_ahora)
  \/ Detener
  \/ ResetearNotificaciones
  \/ \E por_disparo \in BOOLEAN : Verificar(por_disparo)
  \/ \E productos \in SUBSET FilasVariables \ {{}} : IgnorarDia(productos)
  \/ \E productos \in ListasFiltradas : FiltrarIgnorados(productos)
  \/ CambiaDia
  \/ CatalogChange

SpecAlertas == InitAlertas /\ [][NextAlertas]_vars

\* C12: once 'Ignorar durante el dia' was chosen for a product on a day, no
\* alertas_detectadas emission of that day holds the product, whatever
\* checks, stops, starts and resets of the monitor come in between
C12_SinRepetirHoy ==
  [][h'.evento = "emision" =>
       \A p \in Range(h'.emitido) : h.ignorados[p] # h.hoy]_vars

\* --------------------------------------------------- the turn, continued

\* C13: the intent and the source handed to save_interaction at the end of
\* a turn come from that turn: each was assigned while the turn ran, or has
\* never been assigned (and is recorded as "unknown"); neither is a value
\* an earlier turn left in last_detected_intent or last_response_source
C13_SinArrastre ==
  pc = "responder" =>
    /\ obs.intent_set \/ last_detected_intent = None
    /\ obs.source_set \/ last_response_source = None

\* C14: in the product_search flow, when the exact search found nothing
\* and search_fuzzy (threshold 0.75) returned a non-empty list, the
\* products of the turn are that whole list if the confidence between the
\* search term and the name of the first candidate is at least 0.80, and
\* no product otherwise
C14_Puerta ==
  (/\ loc.intencion = "product_search"
   /\ obs.exact_done /\ obs.exact = <<>>
   /\ obs.fuzzy_done /\ obs.fuzzy_ret # <<>>) =>
    LET c == _calculate_confidence(loc.termino, Productos[obs.fuzzy_ret[1]].nombre)
    IN  /\ obs.confidence = c
        /\ loc.productos_encontrados =
             IF 100 * c.num >= 80 * c.den THEN obs.fuzzy_ret ELSE <<>>

\* the scan returned a candidate at or above the gate and the turn went on
\* to the LLM with the fuzzy list
C14_Witness ==
  /\ pc = "llm"
  /\ loc.intencion = "product_search"
  /\ obs.exact_done /\ obs.exact = <<>>
  /\ obs.scanned /\ obs.fuzzy_ret # <<>>
  /\ 100 * obs.confidence.num >= 80 * obs.confidence.den
  /\ loc.productos_encontrados = obs.fuzzy_ret

\* ------------------------------------------- extraer_entidad_producto

\* re.sub(r'[^\w\s]', '', s) keeps the word characters and the whitespace
EsPalabraOEspacio(c) ==
  \/ InSeq(LowerAscii, c) \/ InSeq(UpperAscii, c) \/ c \in Digits \/ c = "_"
  \/ InSeq(LowerAccent, c) \/ InSeq(UpperAccent, c)
  \/ c \in Whitespace

\* lines 688-690: texto_limpio
texto_limpio_de(texto) ==
  Strip(SelectSeq(Unidecode(Lower(texto)), EsPalabraOEspacio))

\* line 695: productos_bd_lower
productos_bd_lower_de(productos_bd) ==
  [i \in 1..Len(productos_bd) |-> Unidecode(Lower(productos_bd[i]))]

\* list.index(x), 1-based; 0 when x is not in the list
PrimerIndice(lista, x) ==
  IF \E i \in 1..Len(lista) : lista[i] = x
    THEN CHOOSE i \in 1..Len(lista) : lista[i] = x /\ \A j \in 1..(i - 1) : lista[j] # x
    ELSE 0

\* lines 701-711: plurales, (plural, singular) pairs
plurales ==
  <<
    <<<<"m","a","r","t","i","l","l","o","s">>, <<"m","a","r","t","i","l","l","o">>>>,
    <<<<"c","l","a","v","o","s">>, <<"c","l","a","v","o">>>>,
    <<<<"t","o","r","n","i","l","l","o","s">>, <<"t","o","r","n","i","l","l","o">>>>,
    <<<<"t","a","l","a","d","r","o","s">>, <<"t","a","l","a","d","r","o">>>>,
    <<<<"s","e","r","r","u","c","h","o","s">>, <<"s","e","r","r","u","c","h","o">>>>,
    <<<<"p","a","l","a","s">>, <<"p","a","l","a">>>>,
    <<<<"p","i","c","o","s">>, <<"p","i","c","o">>>>,
    <<<<"l","l","a","v","e","s">>, <<"l","l","a","v","e">>>>,
    <<<<"d","e","s","t","o","r","n","i","l","l","a","d","o","r","e","s">>, <<"d","e","s","t","o","r","n","i","l","l","a","d","o","r">>>>,
    <<<<"a","l","i","c","a","t","e","s">>, <<"a","l","i","c","a","t","e">>>>,
    <<<<"p","i","n","z","a","s">>, <<"p","i","n","z","a">>>>,
    <<<<"c","a","b","l","e","s">>, <<"c","a","b","l","e">>>>,
    <<<<"t","u","b","o","s">>, <<"t","u","b","o">>>>,
    <<<<"c","o","d","o","s">>, <<"c","o","d","o">>>>,
    <<<<"g","r","i","f","o","s">>, <<"g","r","i","f","o">>>>,
    <<<<"b","a","l","d","o","s","a","s">>, <<"b","a","l","d","o","s","a">>>>,
    <<<<"l","a","d","r","i","l","l","o","s">>, <<"l","a","d","r","i","l","l","o">>>>,
    <<<<"b","l","o","q","u","e","s">>, <<"b","l","o","q","u","e">>>>,
    <<<<"p","i","n","t","u","r","a","s">>, <<"p","i","n","t","u","r","a">>>>,
    <<<<"b","r","o","c","h","a","s">>, <<"b","r","o","c","h","a">>>>,
    <<<<"r","o","d","i","l","l","o","s">>, <<"r","o","d","i","l","l","o">>>>,
    <<<<"l","i","j","a","s">>, <<"l","i","j","a">>>>,
    <<<<"a","d","h","e","s","i","v","o","s">>, <<"a","d","h","e","s","i","v","o">>>>,
    <<<<"s","i","l","i","c","o","n","a","s">>, <<"s","i","l","i","c","o","n","a">>>>
  >>

\* what the three attempts of lines 717-735 look up for one word: the word,
\* its singular of the dictionary, the word without its final 's'
\* (<<>> stands for an attempt that is not made)
intento(palabra, k) ==
  CASE k = 1 -> palabra
    [] k = 2 -> IF \E i \in DOMAIN plurales : plurales[i][1] = palabra
                  THEN plurales[CHOOSE i \in DOMAIN plurales : plurales[i][1] = palabra][2]
                  ELSE <<>>
    [] k = 3 -> IF EndsWith(palabra, "s") /\ Len(palabra) > 3
                  THEN SubSeq(palabra, 1, Len(palabra) - 1)
                  ELSE <<>>

\* the index in the list of the first attempt of a word that is in the list
RECURSIVE indice_palabra(_, _, _)
indice_palabra(palabra, lista, k) ==
  IF k > 3 THEN 0
  ELSE IF intento(palabra, k) # <<>> /\ PrimerIndice(lista, intento(palabra, k)) > 0
    THEN PrimerIndice(lista, intento(palabra, k))
  ELSE indice_palabra(palabra, lista, k + 1)

\* the loop with the attempts outermost: every word is tried exactly, then
\* every word by the dictionary, then every word without its 's'
RECURSIVE indice_por_intento(_, _, _)
indice_por_intento(palabras, lista, k) ==
  IF k > 3 THEN 0
  ELSE LET hits == {i \in 1..Len(palabras) :
                      intento(palabras[i], k) # <<>>
                        /\ PrimerIndice(lista, intento(palabras[i], k)) > 0}
       IN  IF hits # {}
             THEN PrimerIndice(lista,
                    intento(palabras[CHOOSE i \in hits : \A j \in hits : i <= j], k))
             ELSE indice_por_intento(palabras, lista, k + 1)

indice_sin_orden(palabras, lista) == indice_por_intento(palabras, lista, 1)

\* lines 714-735: the loop over the words, left to right
RECURSIVE indice_en_palabras(_, _)
indice_en_palabras(palabras, lista) ==
  IF palabras = <<>> THEN 0
  ELSE IF indice_palabra(Head(palabras), lista, 1) > 0
    THEN indice_palabra(Head(palabras), lista, 1)
  ELSE indice_en_palabras(Tail(palabras), lista)

\* the score a candidate needs, in tenths of a point
UmbralBajo == 850 - 50

\* line 748: mejor_match[1] >= 85
UmbralEntidad == 850

\* what the function hands back: an entity, or None
SinEntidad == [hay |-> FALSE, nombre |-> <<>>, via |-> "nada", lanzo |-> FALSE]

Entidad(nombre, via) == [hay |-> TRUE, nombre |-> nombre, via |-> via, lanzo |-> FALSE]

\* extraer_entidad_producto(texto).
\*   listado: what get_all_product_names() does, "ok" (it returns
\*            productos_bd) or the exception it raises
\*   matcher: what the import of rapidfuzz and process.extractOne do:
\*            [out |-> "ok", idx, score] (idx = 0: no match, for an empty list)
\*            or [out |-> the exception raised]
extraer_entidad_producto(texto, productos_bd, listado, matcher) ==
  LET texto_limpio == texto_limpio_de(texto)
      productos_bd_lower == productos_bd_lower_de(productos_bd)
      idx == indice_en_palabras(Split(texto_limpio), productos_bd_lower)
  IN  IF listado # "ok"
        THEN IF ExceptMatches("Exception", listado)
               THEN [SinEntidad EXCEPT !.via = "listado"]
               ELSE [SinEntidad EXCEPT !.lanzo = TRUE]
      ELSE IF idx > 0 THEN Entidad(Lower(productos_bd[idx]), "palabra")
      ELSE IF matcher.out # "ok"
        THEN IF ExceptMatches("ImportError", matcher.out)
                  \/ ExceptMatches("Exception", matcher.out)
               THEN [SinEntidad EXCEPT !.via = "frase"]
               ELSE [SinEntidad EXCEPT !.lanzo = TRUE]
      ELSE IF matcher.idx > 0 /\ matcher.score >= UmbralEntidad
        THEN Entidad(Lower(productos_bd[
               PrimerIndice(productos_bd_lower, productos_bd_lower[matcher.idx])]), "frase")
      ELSE [SinEntidad EXCEPT !.via = "frase"]

\* the lists of names the catalog may hand back
Whitelists ==
  {
    <<>>,
    <<<<"P","a","l","a">>>>,
    <<<<"P","a","l","a","s">>>>,
    <<<<"P","a","l","a">>, <<"P","a","l","a","s">>>>,
    <<<<"P","a","l","a","s">>, <<"P","a","l","a">>>>,
    <<<<"M","a","r","t","i","l","l","o">>, <<"P","a","l","a">>>>,
    <<<<"L","a'","t","e","x">>>>,
    <<<<"P","a","l","a"," ","x"," ","2">>>>,
    <<<<"P","A","L","A">>, <<"p","a","l","a">>>>,
    <<<<"C","l","a","v","o">>, <<"M","a","r","t","i","l","l","o">>, <<"P","a","l","a","s">>>>
  }

\* the utterances handed to the extractor
TextosEntidad ==
  {
    <<>>, <<"p","r","e","c","i","o">>, <<"s","t","o","c","k"," ","p","a","l","a","s">>,
    <<"P","r","e","c","i","o"," ","P","A","L","A","S","!","!">>,
    <<"c","u","a","n","t","o","s"," ","m","a","r","t","i","l","l","o","s">>,
    <<"s","t","o","c","k"," ","p","a","l","a","s"," ","m","a","r","t","i","l","l","o">>,
    <<"s","t","o","c","k"," ","m","a","r","t","i","l","l","o"," ","p","a","l","a","s">>,
    <<"s","t","o","c","k"," ","l","a","t","e","x","s">>,
    <<"~?","S","t","o","c","k"," ","L","a'","t","e","x","?">>,
    <<"s","t","o","c","k"," ","p","a","l","a"," ","x"," ","2">>,
    <<"s","t","o","c","k"," ","g","a","s">>,
    <<"c","u","a","n","t","o","s"," ","c","l","a","v","o","s"," ","p","a","l","a","s">>
  }

\* the scores the matcher may give, in tenths of a point
Puntajes == {0, 849, 850, 1000}

\* what the matcher may do on a list: fail to import, fail, find nothing in
\* an empty list, or name its best candidate and the score
ResultadosMatcher(productos_bd) ==
  {[out |-> e, idx |-> 0, score |-> 0] : e \in {"ImportError", "ValueError"}}
    \cup (IF productos_bd = <<>>
            THEN {[out |-> "ok", idx |-> 0, score |-> 0]}
            ELSE {[out |-> "ok", idx |-> i, score |-> s] :
                    i \in 1..Len(productos_bd), s \in Puntajes})

\* what get_all_product_names may do
ResultadosListado == {"ok", "AttributeError", "OperationalError"}

InitEntidad ==
  /\ ViewInit
  /\ catalog = [p \in ProductIds |-> "active"]
  /\ \E texto \in TextosEntidad, productos_bd \in Whitelists :
       h = [fase |-> "entrada", texto |-> texto, productos_bd |-> productos_bd,
            listado |-> "ok", matcher |-> [out |-> "ok", idx |-> 0, score |-> 0],
            r |-> SinEntidad]

\* extraer_entidad_producto(texto)
ExtraerEntidad ==
  /\ h.fase = "entrada"
  /\ \E listado \in ResultadosListado, matcher \in ResultadosMatcher(h.productos_bd) :
       h' = [h EXCEPT !.fase = "hecho", !.listado = listado, !.matcher = matcher,
                      !.r = extraer_entidad_producto(h.texto, h.productos_bd,
                                                     listado, matcher)]
  /\ UNCHANGED last_detected_intent
  /\ ViewFrame

NextEntidad == ExtraerEntidad

SpecEntidad == InitEntidad /\ [][NextEntidad]_vars

\* C16: with the name list obtained, the words of the cleaned utterance are
\* taken left to right and, for each word, the word itself, then its
\* singular of the plural dictionary, then the word without its final 's'
\* (words of more than 3 characters) is looked up in the lower-cased list;
\* the first hit in this word-major order ends the search, and the result
\* is the lower-cased catalog name at the first position of that hit
C16_PrimeraPalabra ==
  LET palabras == Split(texto_limpio_de(h.texto))
      lista == productos_bd_lower_de(h.productos_bd)
      Busca(i, k) == intento(palabras[i], k)
      pares == {t \in (1..Len(palabras)) \X (1..3) :
                  /\ Busca(t[1], t[2]) # <<>>
                  /\ \E j \in 1..Len(lista) : lista[j] = Busca(t[1], t[2])}
      primero == CHOOSE t \in pares :
                   \A u \in pares : t[1] < u[1] \/ (t[1] = u[1] /\ t[2] <= u[2])
  IN  (h.fase = "hecho" /\ h.listado = "ok" /\ pares # {}) =>
        /\ h.r.hay /\ ~h.r.lanzo
        /\ \E j \in 1..Len(lista) :
             /\ lista[j] = Busca(primero[1], primero[2])
             /\ \A i \in 1..(j - 1) : lista[i] # lista[j]
             /\ h.r.nombre = Lower(h.productos_bd[j])

\* 'stock palas martillo' with the names Martillo, Pala: the dictionary
\* singular of the second word wins over the exact hit of the third word
C16_Witness ==
  /\ h.fase = "hecho"
  /\ h.listado = "ok"
  /\ h.texto = <<"s","t","o","c","k"," ","p","a","l","a","s"," ","m","a","r","t","i","l","l","o">>
  /\ Len(h.productos_bd) = 2 /\ h.productos_bd[1] = <<"M","a","r","t","i","l","l","o">>
  /\ h.r.hay
  /\ h.r.nombre = <<"p","a","l","a">>

\* C17: the whole-phrase match is tried only when no word of the utterance
\* hit the list; its best candidate is the entity only with a score of 85
\* or more; with a lower score, an empty list, a matcher that cannot be
\* imported or that fails, or a name listing that fails, the extractor
\* returns no entity, and it never raises
C17_FraseSoloAlFinal ==
  LET palabras == Split(texto_limpio_de(h.texto))
      lista == productos_bd_lower_de(h.productos_bd)
      acierta ==
        \E i \in 1..Len(palabras), k \in 1..3 :
          /\ intento(palabras[i], k) # <<>>
          /\ \E j \in 1..Len(lista) : lista[j] = intento(palabras[i], k)
      aceptado ==
        /\ h.matcher.out = "ok"
        /\ h.matcher.idx > 0
        /\ h.matcher.score >= 10 * 85
  IN  h.fase = "hecho" =>
        /\ ~h.r.lanzo
        /\ h.listado # "ok" => ~h.r.hay
        /\ h.listado = "ok" =>
             /\ (h.r.via = "frase") <=> ~acierta
             /\ ~acierta => (h.r.hay <=> aceptado)
             /\ (~acierta /\ h.r.hay) =>
                  \E j \in 1..Len(lista) :
                    /\ lista[j] = lista[h.matcher.idx]
                    /\ \A i \in 1..(j - 1) : lista[i] # lista[j]
                    /\ h.r.nombre = Lower(h.productos_bd[j])

\* no word hit the list and the best candidate of the phrase scored 84.9
C17_Witness ==
  /\ h.fase = "hecho"
  /\ h.listado = "ok"
  /\ h.r.via = "frase"
  /\ h.matcher.out = "ok" /\ h.matcher.idx > 0 /\ h.matcher.score = 849
  /\ ~h.r.hay
\* ------------------------------------------ ProductRepository.search_fuzzy

\* search_fuzzy(query, threshold, solo_activos): the exact results when there
\* are any; else the scan over the rows of get_all(), called without argument
search_fuzzy(cat, query, threshold, solo_activos) ==
  LET exact_results == search(cat, query, solo_activos)
  IN  IF exact_results # <<>> THEN exact_results
      ELSE fuzzy_scan(get_all(cat, TRUE), cat, query, threshold, solo_activos)

\* the threshold of a call: the default of the signature, or the one that
\* procesar_con_groq passes
threshold_de(umbral) == IF umbral = "default" THEN ThresholdDefault ELSE ThresholdFlow

\* the queries handed to the repository
Consultas ==
  {<<>>, <<"p","a","l","a"," ","2">>, <<"p","a","l","o">>, <<"m","a","t","e">>, <<"l","a","t","x">>, <<"p","a","l","a","s">>}

\* the tables searched: any state of the first rows, the others alike
CatalogosBusqueda ==
  {c \in [ProductIds -> RowStates] :
     \A p, q \in ProductIds \ FilasVariables : c[p] = c[q]}

InitBusqueda ==
  /\ ViewInit
  /\ catalog \in CatalogosBusqueda
  /\ \E query \in Consultas, umbral \in {"default", "flow"}, solo_activos \in BOOLEAN :
       h = [fase |-> "entrada", query |-> query, umbral |-> umbral,
            solo_activos |-> solo_activos, r |-> <<>>]

\* ProductRepository.search(query, solo_activos); an error of the session
\* propagates to the caller
Buscar ==
  /\ h.fase = "entrada"
  /\ \E out \in DbOutcomes :
       h' = IF out = "ok"
              THEN [h EXCEPT !.fase = "search",
                             !.r = search(catalog, h.query, h.solo_activos)]
              ELSE [h EXCEPT !.fase = "error"]
  /\ UNCHANGED last_detected_intent
  /\ ViewFrame

\* ProductRepository.search_fuzzy(query, threshold, solo_activos)
BuscarFuzzy ==
  /\ h.fase = "entrada"
  /\ \E out \in DbOutcomes :
       h' = IF out = "ok"
              THEN [h EXCEPT !.fase = "search_fuzzy",
                             !.r = search_fuzzy(catalog, h.query, threshold_de(h.umbral),
                                                h.solo_activos)]
              ELSE [h EXCEPT !.fase = "error"]
  /\ UNCHANGED last_detected_intent
  /\ ViewFrame

NextBusqueda == Buscar \/ BuscarFuzzy

SpecBusqueda == InitBusqueda /\ [][NextBusqueda]_vars

\* C18: exact search invoked with an empty term returns no product, whatever
\* the table holds
C18_TerminoVacio ==
  (h.fase = "search" /\ h.query = <<>>) => h.r = <<>>

\* C19: when the exact search is empty, search_fuzzy scores each product it
\* scans with the greatest of its similarities to nombre, descripcion and
\* marca, returns exactly those that reach the threshold (0.60 by default,
\* 0.75 in the product_search flow), in non-increasing order of score, cut to
\* the 10 best, and none twice
C19_ResultadoFuzzy ==
  (h.fase = "search_fuzzy"
     /\ ~ \E p \in ProductIds :
            /\ h.solo_activos => catalog[p] = "active"
            /\ \/ Ilike(Productos[p].nombre, h.query)
               \/ Ilike(Productos[p].codigo, h.query)
               \/ Ilike(Productos[p].descripcion, h.query)
               \/ Ilike(Productos[p].marca, h.query)) =>
    LET q == Lower(h.query)
        sim(col) == IF col # None /\ col # <<>> THEN ratio(q, Lower(col)) ELSE Zero
        score(p) == FracMax(FracMax(ratio(q, Lower(Productos[p].nombre)),
                                    sim(Productos[p].descripcion)),
                            sim(Productos[p].marca))
        umbral == IF h.umbral = "default" THEN [num |-> 60, den |-> 100]
                  ELSE [num |-> 75, den |-> 100]
        califican == {p \in ProductIds :
                        catalog[p] = "active" /\ FracGE(score(p), umbral)}
    IN  /\ Range(h.r) \subseteq califican
        /\ Len(h.r) = Min(Cardinality(califican), 10)
        /\ \A i, j \in 1..Len(h.r) :
             /\ i < j => FracGE(score(h.r[i]), score(h.r[j]))
             /\ i # j => h.r[i] # h.r[j]
        /\ \A p \in califican \ Range(h.r), i \in 1..Len(h.r) :
             FracGE(score(h.r[i]), score(p))

\* eleven rows reach the default threshold for 'pala 2' and the list holds the
\* ten best, the two nearest names first
C19_Witness ==
  /\ h.fase = "search_fuzzy"
  /\ h.query = <<"p","a","l","a"," ","2">>
  /\ h.umbral = "default"
  /\ \A p \in ProductIds : catalog[p] = "active"
  /\ h.r = <<7, 11, 9, 3, 4, 5, 6, 8, 10, 12>>

\* C20: with solo_activos the scan considers the active products only, and
\* without it every product of the table, the inactive ones included: a
\* product of that set that reaches the threshold is in the list unless ten
\* better ones are
C20_ConjuntoExplorado ==
  (h.fase = "search_fuzzy"
     /\ ~ \E p \in ProductIds :
            /\ h.solo_activos => catalog[p] = "active"
            /\ \/ Ilike(Productos[p].nombre, h.query)
               \/ Ilike(Productos[p].codigo, h.query)
               \/ Ilike(Productos[p].descripcion, h.query)
               \/ Ilike(Productos[p].marca, h.query)) =>
    LET considerados == {p \in ProductIds : h.solo_activos => catalog[p] = "active"}
        califican == {p \in considerados :
                        FracGE(max_similarity(h.query, p), threshold_de(h.umbral))}
    IN  /\ Range(h.r) \subseteq considerados
        /\ \A p \in califican \ Range(h.r) :
             /\ Len(h.r) = FuzzyLimit
             /\ \A i \in 1..Len(h.r) :
                  FracGE(max_similarity(h.query, h.r[i]), max_similarity(h.query, p))

\* -------------------------------------------------- ConversationService
\* h holds the service, the two tables and the clock:
\*   ahora                    datetime.now(), in minutes
\*   current_session_id       0 for None, else the number of the uuid4 drawn
\*   current_conversation_id  0 for None, else the id of a row
\*   last_interaction_time    -1 for None
\*   uuids                    uuid4 values drawn so far
\*   conversaciones           the rows of `conversations`, by id
\*   interacciones            the conversation_id of each row of `interactions`
\*   llamadas                 save_interaction calls made so far
\*   evento                   what the last step did
\*   espera                   minutes between the last save_interaction call
\*                            and the one before it, -1 when it was the first
\*   previa                   the conversation get_or_create_session returned
\*                            to the last call, 0 when it raised
\*   fin_llamado, fin_hecho   end_current_session was called, and ended a
\*                            conversation, since the last save_interaction

\* minutes the clock runs through
MaxMinutos == 62

\* save_interaction calls in one run
MaxLlamadas == 3

\* how far the clock moves between two calls
Pasos == {10, 30, 31}

\* a session that also expires at the timeout itself
sesion_expirada_inclusive(sid, last, now, timeout) ==
  sid = 0 \/ last = -1 \/ now - last >= timeout

\* the condition of lines 37-39
sesion_expirada(sid, last, now, timeout) ==
  sid = 0 \/ last = -1 \/ now - last > timeout

\* timedelta(minutes=30)
session_timeout == 30

InitConversacion ==
  /\ ViewInit
  /\ catalog = [p \in ProductIds |-> "active"]
  /\ h = [fase |-> "conversacion", ahora |-> 0,
          current_session_id |-> 0, current_conversation_id |-> 0,
          last_interaction_time |-> -1, uuids |-> 0,
          conversaciones |-> <<>>, interacciones |-> <<>>, llamadas |-> 0,
          evento |-> "creado", espera |-> -1, previa |-> 0,
          fin_llamado |-> FALSE, fin_hecho |-> FALSE, ultima |-> -1]

\* ConversationService.save_interaction, with get_or_create_session and the
\* two repository calls; an exception of the repository propagates
SaveInteraction ==
  /\ h.llamadas < MaxLlamadas
  /\ \E out_create \in DbOutcomes, out_save \in DbOutcomes :
       LET now == h.ahora
           h0 == [h EXCEPT !.llamadas = @ + 1,
                           !.espera = IF h.ultima = -1 THEN -1 ELSE now - h.ultima,
                           !.ultima = now,
                           !.fin_llamado = FALSE, !.fin_hecho = FALSE]
           nueva == sesion_expirada(h.current_session_id, h.last_interaction_time,
                                    now, session_timeout)
           h1 == IF nueva
                   THEN [h0 EXCEPT !.current_session_id = h.uuids + 1,
                                   !.uuids = @ + 1]
                   ELSE h0
           h2 == IF nueva
                   THEN [h1 EXCEPT
                           !.current_conversation_id = Len(h.conversaciones) + 1,
                           !.conversaciones =
                              Append(@, [session_id |-> h1.current_session_id,
                                         started_at |-> now, ended |-> FALSE,
                                         total_interactions |-> 0])]
                   ELSE h1
           h3 == [h2 EXCEPT !.last_interaction_time = now,
                            !.previa = h2.current_conversation_id]
           conversation_id == h3.current_conversation_id
       IN  IF nueva /\ out_create # "ok"
             THEN h' = [h1 EXCEPT !.evento = "error_crear", !.previa = 0]
           ELSE IF out_save # "ok"
             THEN h' = [h3 EXCEPT !.evento = "error_guardar"]
           ELSE h' = [h3 EXCEPT
                        !.interacciones = Append(@, conversation_id),
                        !.conversaciones[conversation_id].total_interactions = @ + 1,
                        !.evento = "guardado"]
  /\ UNCHANGED last_detected_intent
  /\ ViewFrame

\* ConversationService.end_current_session
EndCurrentSession ==
  /\ \E out \in DbOutcomes :
       IF h.current_conversation_id = 0
         THEN h' = [h EXCEPT !.evento = "fin", !.fin_llamado = TRUE]
       ELSE IF out # "ok"
         THEN h' = [h EXCEPT !.evento = "error_fin", !.fin_llamado = TRUE]
       ELSE h' = [h EXCEPT
                    !.conversaciones[h.current_conversation_id].ended = TRUE,
                    !.current_session_id = 0, !.current_conversation_id = 0,
                    !.last_interaction_time = -1,
                    !.evento = "fin", !.fin_llamado = TRUE, !.fin_hecho = TRUE]
  /\ UNCHANGED last_detected_intent
  /\ ViewFrame

\* time passes
Avanza ==
  /\ \E d \in Pasos :
       /\ h.ahora + d <= MaxMinutos
       /\ h' = [h EXCEPT !.ahora = @ + d, !.evento = "reloj"]
  /\ UNCHANGED last_detected_intent
  /\ ViewFrame

NextConversacion == SaveInteraction \/ EndCurrentSession \/ Avanza

SpecConversacion == InitConversacion /\ [][NextConversacion]_vars

\* ------------------------------------------------------------ MainWindow
\* h holds the window and the modal dialog it is waiting for:
\*   authenticated_user   MainWindow.authenticated_user
\*   vista                stacked_widget.currentIndex()
\*   marcado              the navigation button that is checked
\*   protegidos           whether the protected navigation buttons are shown
\*   modal                the dialog whose exec_() is running, if any
\*   pedido               the index cambiar_vista was called with
\*   intentos             failed attempts in the open LoginDialog
\*   usuario_escrito      the text left in username_input
\*   evento               what the last step did

\* the views of the stacked widget: chat, inventory, orders, history
Vistas == {0, 1, 2, 3}

\* the indexes cambiar_vista guards (line 213)
VistasProtegidas == {1, 2, 3}

\* LoginDialog.USERS, by password instead of by its SHA-256 digest
USERS == [admin |-> "admin123", personal |-> "ferreteria2024"]

\* what can be typed in the two fields of the dialog, stripped
NombresEscritos == {"", "admin", "personal", "gabo"}
ClavesEscritas == {"", "admin123", "ferreteria2024"}

\* failed attempts in one dialog
MaxIntentos == 2

InitVentana ==
  /\ ViewInit
  /\ catalog = [p \in ProductIds |-> "active"]
  /\ h = [fase |-> "ventana", authenticated_user |-> None, vista |-> 0,
          marcado |-> 0, protegidos |-> FALSE, modal |-> "ninguno", pedido |-> 0,
          intentos |-> 0, usuario_escrito |-> "", evento |-> "creado"]

VentanaFrame ==
  /\ UNCHANGED last_detected_intent
  /\ ViewFrame

\* mostrar_vista_protegida(index), and the else branch of cambiar_vista
mostrar(w, index) == [w EXCEPT !.vista = index, !.marcado = index]

\* cambiar_vista that shows any view asked for
CambiarVistaSinPuerta(index) ==
  /\ h.modal = "ninguno"
  /\ h' = [mostrar(h, index) EXCEPT !.pedido = index, !.evento = "vista"]
  /\ VentanaFrame

\* MainWindow.cambiar_vista(index), up to login_dialog.exec_()
CambiarVista(index) ==
  /\ h.modal = "ninguno"
  /\ IF index \in VistasProtegidas
       THEN IF h.authenticated_user = None
              THEN h' = [h EXCEPT !.modal = "login", !.pedido = index, !.intentos = 0,
                                  !.usuario_escrito = "", !.evento = "login_abierto"]
              ELSE h' = [mostrar(h, index) EXCEPT !.pedido = index, !.evento = "vista"]
       ELSE h' = [mostrar(h, index) EXCEPT !.pedido = index, !.evento = "vista"]
  /\ VentanaFrame

\* LoginDialog.login; when it accepts, exec_() returns Accepted and
\* cambiar_vista goes on (lines 218-222)
Login(username, password) ==
  /\ h.modal = "login"
  /\ IF username = "" \/ password = ""
       THEN h' = [h EXCEPT !.usuario_escrito = username, !.evento = "campos_vacios"]
     ELSE IF username \in DOMAIN USERS /\ USERS[username] = password
       THEN h' = [mostrar(h, h.pedido) EXCEPT
                    !.authenticated_user = username, !.protegidos = TRUE,
                    !.modal = "ninguno", !.usuario_escrito = username,
                    !.evento = "login_ok"]
     ELSE /\ h.intentos < MaxIntentos
          /\ h' = [h EXCEPT !.intentos = @ + 1, !.usuario_escrito = username,
                            !.evento = "acceso_denegado"]
  /\ VentanaFrame

\* the dialog is rejected (Cancelar, Esc, closed): cambiar_vista(0), line 229
CancelarLogin ==
  /\ h.modal = "login"
  /\ h' = [mostrar(h, 0) EXCEPT !.modal = "ninguno", !.evento = "login_cancelado"]
  /\ VentanaFrame

\* MainWindow.cerrar_sesion, up to the question
CerrarSesion ==
  /\ h.modal = "ninguno"
  /\ IF h.authenticated_user # None
       THEN h' = [h EXCEPT !.modal = "cerrar", !.evento = "pregunta_cierre"]
       ELSE h' = [h EXCEPT !.evento = "sin_sesion"]
  /\ VentanaFrame

\* the answer to the question of cerrar_sesion (lines 382-387)
ResponderCierre(si) ==
  /\ h.modal = "cerrar"
  /\ IF si
       THEN h' = [mostrar(h, 0) EXCEPT
                    !.authenticated_user = None, !.protegidos = FALSE,
                    !.modal = "ninguno", !.evento = "sesion_cerrada"]
       ELSE h' = [h EXCEPT !.modal = "ninguno", !.evento = "cierre_rechazado"]
  /\ VentanaFrame

NextVentana ==
  \/ \E index \in Vistas : CambiarVista(index)
  \/ \E username \in NombresEscritos, password \in ClavesEscritas : Login(username, password)
  \/ CancelarLogin
  \/ CerrarSesion
  \/ \E si \in BOOLEAN : ResponderCierre(si)

SpecVentana == InitVentana /\ [][NextVentana]_vars

\* C21: productos_ignorados_hoy(Q) returns, in the order of Q, exactly the
\* products of Q whose stamp is not today's date (so a product stamped on an
\* earlier day is returned again), the call leaves the map as it was, and the
\* map changes in no step but _ignorar_dia
C21_MapaDeIgnorados ==
  [][/\ h'.evento = "filtrar" =>
          /\ h'.ignorados = h.ignorados
          /\ \E keep \in SUBSET (1..Len(h'.consulta)) :
               /\ keep = {i \in 1..Len(h'.consulta) : h.ignorados[h'.consulta[i]] # h.hoy}
               /\ Len(h'.visibles) = Cardinality(keep)
               /\ \A k \in 1..Len(h'.visibles) :
                    \E i \in keep :
                      /\ Cardinality({j \in keep : j <= i}) = k
                      /\ h'.visibles[k] = h'.consulta[i]
     /\ h'.ignorados # h.ignorados => h'.evento = "ignorar"]_vars

\* the filter ran on day 2 over three products: the one stamped on day 1 is
\* back in the list, the one stamped on day 2 is not
C21_Witness ==
  /\ h.fase = "monitor"
  /\ h.evento = "filtrar"
  /\ h.hoy = 2
  /\ h.consulta = <<3, 1, 2>>
  /\ h.ignorados[3] = 1
  /\ h.ignorados[1] = 2
  /\ h.ignorados[2] = 0
  /\ h.visibles = <<3, 2>>

\* C22: a call to detectar_intencion changes no state of the handler nor of
\* any shared object; it only returns the intent
C22_Pura ==
  [][(h.fase = "entrada" /\ h'.fase = "hecho") =>
       UNCHANGED <<catalog, groq_available, tts_engine, is_processing, is_speaking,
                   boton, last_detected_intent, last_response_source, pc, loc, obs,
                   hilos, senales, guardado, turnos, vacios>>]_vars

\* C23: whatever the text, preparar_respuesta returns a text without any
\* character outside letters, digits, whitespace and the allowed punctuation,
\* also when the cleaning leaves nothing
C23_SalidaLimpia ==
  h.fase = "hecho" =>
    \A i \in 1..Len(h.r) :
      \/ InSeq(LowerAscii, h.r[i]) \/ InSeq(UpperAscii, h.r[i])
      \/ InSeq(LowerAccent, h.r[i]) \/ InSeq(UpperAccent, h.r[i])
      \/ h.r[i] \in Digits \cup Whitespace
      \/ h.r[i] \in {".", ",", "!", "?", "~!", "~?", ":", ";", "(", ")", "-", "/"}

C27_DetenidoCallado ==
  [][(~h.activo /\ h' # h) =>
       /\ h'.evento # "emision"
       /\ (~h'.activo => h'.notificados = {})]_vars

\* C25: a save_interaction call that returns, and comes at most 30 minutes
\* after the previous call (one that obtained its conversation) with no
\* session ended in between, is stored in the conversation of that call and
\* adds exactly one to its total_interactions; the first call, a call more
\* than 30 minutes after the previous one and the first call after an
\* end_current_session that ended the session each create exactly one
\* conversation and store the interaction there
C25_SesionDe30Minutos ==
  [][(h.fase = "conversacion" /\ h'.llamadas = h.llamadas + 1 /\ h'.evento = "guardado") =>
       LET n == Len(h.conversaciones)
       IN  /\ (h'.espera # -1 /\ h'.espera <= 30 /\ h.previa # 0 /\ ~h.fin_hecho) =>
                /\ h.previa \in 1..n
                /\ h'.interacciones = Append(h.interacciones, h.previa)
                /\ h'.conversaciones =
                     [h.conversaciones EXCEPT ![h.previa].total_interactions = @ + 1]
           /\ (h'.espera = -1 \/ h'.espera > 30 \/ h.fin_hecho) =>
                /\ Len(h'.conversaciones) = n + 1
                /\ h'.interacciones = Append(h.interacciones, n + 1)
                /\ h'.conversaciones[n + 1].total_interactions = 1
                /\ \A i \in 1..n : h'.conversaciones[i] = h.conversaciones[i]
           /\ Len(h'.interacciones) = Len(h.interacciones) + 1]_vars

\* a second interaction saved exactly 30 minutes after the first, in the
\* first conversation
C25_Witness ==
  /\ h.fase = "conversacion"
  /\ h.evento = "guardado"
  /\ h.espera = 30
  /\ Len(h.conversaciones) = 1
  /\ h.conversaciones[1].total_interactions = 2
  /\ h.interacciones = <<1, 1>>

C28_VuelveAReposo ==
  is_processing ~> (~is_processing /\ ~is_speaking /\ boton = "enviar")


\* C29: once the queued signals are delivered, is_speaking is TRUE and the
\* button is in stop mode whenever some speech thread that the user has not
\* stopped has emitted speaking_started and not yet speaking_finished
C29_HablandoVisible ==
  (hilos.hablando > hilos.detenidos /\ senales = <<>>)
    => (is_speaking /\ boton = "stop")

\* C30: when the exact re-check at the start of search_fuzzy produced the
\* list handed to the confidence gate, the turn uses that list as its
\* result: the gate does not discard it
C30_ExactoNoRechazado ==
  (obs.recheck_done /\ obs.recheck # <<>> /\ obs.fuzzy_done)
    => loc.productos_encontrados = obs.recheck
====
